---- MODULE Spec2Model ----
(***************************************************************************)
(* DailyEnchant: a desktop task manager.                                   *)
(*   src/frontend/js/renderer.js  the renderer: session state, reload and   *)
(*                                mutation protocols, FrontendLogger        *)
(*   src/unnamed/part_000         the Electron main process: windows, tray  *)
(*                                and the Python backend child process      *)
(* A handler of the renderer is one action: JavaScript runs a task and all  *)
(* the promise reactions it queues to completion before the next event.     *)
(***************************************************************************)
EXTENDS Integers, Sequences, FiniteSets, TLC

VARIABLES
    frontendLogs,    \* localStorage['frontendLogs'], parsed (<<>> when the key is absent)
    logged,          \* history: every entry logged since the last clearLogs
    logClock,        \* the clock behind new Date().toISOString() of a log entry
    logPosts,        \* POST /logs requests in flight
    logPostsIssued,  \* history: POST /logs requests issued so far
    logPostsFailed,  \* history: POST /logs requests that failed so far
    logCalls,        \* history: FrontendLogger.log calls made so far
    platform,        \* process.platform of the main process
    appState,        \* launching | running | quitting | quit
    openWindows,     \* BrowserWindow.getAllWindows().length
    mainWindow,      \* TRUE when the reference is set, FALSE when it is null
    windowVisible,   \* mainWindow.isVisible()
    windowsCreated,  \* history: calls of createWindow
    pythonProcess,   \* TRUE when the reference is set, FALSE when it is null
    procState,       \* none | running | signalled | exited  (the child process itself)
    spawnCount,      \* history: calls of spawn
    killCount,       \* history: calls of pythonProcess.kill()
    currentView,     \* tasks | calendar | stats
    currentFilter,   \* all | todo | in_progress | completed | overdue | due_soon
    currentCategory, \* a category id or "all"
    currentTaskId,   \* a task id, or Null
    tasks,           \* the in-memory task list
    categories,      \* the in-memory category list
    taskModal,       \* the task modal has class 'active'
    taskTitle,       \* elements.taskTitle.value
    searchInput,     \* elements.searchInput.value
    sortSelect,      \* elements.sortSelect.value
    loadingIndicator,\* the loading indicator has class 'active'
    notification,    \* the notification element: its message and its type
    tasksContainer,  \* children of elements.tasksContainer: task ids, or the empty state
    paintTimers,     \* pending 50 ms timers of renderTasks, each with its filteredTasks
    fallbackTimers,  \* pending 200 ms timers of saveTask
    categoryList,    \* category ids shown in the sidebar and in the form's select
    stats,           \* the four numbers shown in the stats view
    activeViews, \* the views whose button and panel have class 'active'
    filteredTasks, \* history: the list the latest renderTasks got from getFilteredAndSortedTasks
    progressRecords, \* the records shown in the form: the text and data-created-at of each
    taskStatus, \* elements.taskStatus.value
    taskPriority, \* elements.taskPriority.value
    editSession, \* history: the task the form was opened on, and the edits made since
    reloads,         \* the loadAllData calls made so far, each with its two requests
    muts,            \* the write requests issued so far
    now,             \* the current instant, in hours (UTC)
    tz,              \* the local time zone, in hours east of UTC
    backend,         \* the backend: its task store, the answers and writes it has made
    lastTasksResponse, \* history: the latest answer to a GET /tasks, and its reload
    gestures,        \* history: user gestures made so far
    faults,          \* history: answers so far that were failures or malformed
    fx               \* history: the effects of the latest step, in order

logVars ==
    <<frontendLogs, logged, logClock, logPosts, logPostsIssued, logPostsFailed, logCalls>>

shellVars ==
    <<platform, appState, openWindows, mainWindow, windowVisible, windowsCreated,
      pythonProcess, procState, spawnCount, killCount>>

sessionVars ==
    <<currentView, currentFilter, currentCategory, currentTaskId, tasks, categories>>

domVars ==
    <<taskPriority, taskStatus, progressRecords,
      activeViews, taskModal, taskTitle, searchInput, sortSelect, loadingIndicator,
      notification,
      tasksContainer, paintTimers, fallbackTimers, categoryList, stats>>

netVars ==
    <<reloads, muts>>

envVars ==
    <<now, tz, backend>>

histVars ==
    <<editSession, filteredTasks, lastTasksResponse, gestures, faults, fx>>

rendererVars ==
    <<sessionVars, domVars, netVars, envVars, histVars>>

vars ==
    <<logVars, shellVars, rendererVars>>

(***************************************************************************)
(* Bounds of the model                                                     *)
(***************************************************************************)
MaxLogCalls ==
    3

MaxWindows ==
    4

MaxReloads ==
    2

MaxWrites ==
    1

MaxGestures ==
    2

MaxFaults ==
    1

\* the longest task list given to getFilteredAndSortedTasks as an input
MaxTasks ==
    3

(***************************************************************************)
(* Data: text, dates, tasks and categories                                 *)
(***************************************************************************)
\* null, for an id
Null ==
    "null"

\* a missing due date (null)
NoDate ==
    0 - 1

\* Text is a sequence of characters; the model's alphabet is a, b, A, B and the blank.
toLowerCaseChar(c) ==
    CASE c = "A" -> "a"
      [] c = "B" -> "b"
      [] OTHER -> c

\* String.prototype.toLowerCase
toLowerCase(s) ==
    [i \in 1..Len(s) |-> toLowerCaseChar(s[i])]

RECURSIVE trimStart(_)
trimStart(s) ==
    IF s # <<>> /\ Head(s) = " " THEN trimStart(Tail(s)) ELSE s

RECURSIVE trimEnd(_)
trimEnd(s) ==
    IF s # <<>> /\ s[Len(s)] = " " THEN trimEnd(SubSeq(s, 1, Len(s) - 1)) ELSE s

\* String.prototype.trim
trim(s) ==
    trimEnd(trimStart(s))

\* String.prototype.includes
includes(s, t) ==
    \E i \in 0..(Len(s) - Len(t)) : SubSeq(s, i + 1, i + Len(t)) = t

\* new Date(due_date).getTime() for a date-only string: midnight UTC of that day
DateOf(day) ==
    day * 24

StartOfToday_utc(instant, zone) ==
    (instant \div 24) * 24

\* today.setHours(0, 0, 0, 0): the start of the local day, as an instant
StartOfToday(instant, zone) ==
    ((instant + zone) \div 24) * 24 - zone

\* tomorrow.setDate(tomorrow.getDate() + 1)
StartOfTomorrow(instant, zone) ==
    StartOfToday(instant, zone) + 24

Task(id, title, category_id, priority, due_date, status, tags, updated_at) ==
    [id |-> id, title |-> title, category_id |-> category_id, priority |-> priority,
     due_date |-> due_date, status |-> status, description |-> <<>>, tags |-> tags,
     progress_records |-> <<>>, updated_at |-> updated_at]

\* a progress record of a task: its text and the instant it was made
ProgressRecord(text, created_at) ==
    [text |-> text, created_at |-> created_at]

\* a task with progress records
WithRecords(task, records) ==
    [task EXCEPT !.progress_records = records]

escapeHTMLChar(c) ==
    CASE c = "<" -> "&lt;"
      [] c = ">" -> "&gt;"
      [] c = "&" -> "&amp;"
      [] OTHER -> c

\* escapeHTML (1172-1176): the text as markup, each of < > & as its entity
escapeHTML(text) ==
    [i \in 1..Len(text) |-> escapeHTMLChar(text[i])]

characterOf(token) ==
    CASE token = "&lt;" -> "<"
      [] token = "&gt;" -> ">"
      [] token = "&amp;" -> "&"
      [] OTHER -> token

RECURSIVE textContent(_)
\* the textContent of an element whose innerHTML was set to html: entities are
\* characters again, and a bare < opens a tag that takes the rest with it
textContent(html) ==
    IF html = <<>> THEN <<>>
    ELSE IF Head(html) = "<" THEN <<>>
    ELSE <<characterOf(Head(html))>> \o textContent(Tail(html))

Category(id, name) ==
    [id |-> id, name |-> name, color |-> "#4CAF50"]

\* the bodies GET /tasks answers with in the model
TaskListA ==
    <<Task("t1", <<"A", "b">>, "c1", "medium", NoDate, "todo", <<>>, 1)>>

TaskListB ==
    <<Task("t2", <<"b", "a">>, Null, "high", 10, "completed", <<<<"B">>>>, 2),
      Task("t1", <<"A", "b">>, "c1", "medium", NoDate, "todo", <<>>, 3)>>

TaskBodies ==
    {TaskListA, TaskListB}

\* the bodies GET /categories answers with in the model
CategoryListA ==
    <<Category("c1", <<"a">>)>>

CategoryListB ==
    <<Category("c1", <<"a">>), Category("c2", <<"b">>)>>

CategoryBodies ==
    {CategoryListA, CategoryListB}

\* an answer to a GET: a well-formed body, a body whose list is missing or no array,
\* or a failure
Responses(bodies) ==
    [kind : {"array"}, body : bodies]
        \cup {[kind |-> "malformed", body |-> <<>>], [kind |-> "error", body |-> <<>>]}

\* a failed write: no response at all, or a status with or without a message
WriteErrors ==
    {[hasResponse |-> FALSE, status |-> 0, hasMessage |-> FALSE]}
        \cup [hasResponse : {TRUE}, status : {409, 500}, hasMessage : BOOLEAN]

Views ==
    {"tasks", "calendar", "stats"}

Filters ==
    {"all", "todo", "in_progress", "completed", "overdue", "due_soon"}

SortKeys ==
    {"updated_at_desc", "updated_at_asc", "due_date_asc", "due_date_desc", "priority"}

Ids(list) ==
    [i \in 1..Len(list) |-> list[i].id]

(***************************************************************************)
(* getFilteredAndSortedTasks (renderer.js 687-762)                         *)
(***************************************************************************)
MatchesFilter_allHidesCompleted(task, filter, instant, zone) ==
    CASE filter = "all" -> task.status # "completed"
      [] filter \in {"todo", "in_progress", "completed"} -> task.status = filter
      [] filter = "overdue" ->
            /\ task.due_date # NoDate
            /\ DateOf(task.due_date) < StartOfToday(instant, zone)
            /\ task.status # "completed"
      [] filter = "due_soon" ->
            /\ task.due_date # NoDate
            /\ DateOf(task.due_date) >= StartOfToday(instant, zone)
            /\ DateOf(task.due_date) < StartOfTomorrow(instant, zone)
            /\ task.status # "completed"
      [] OTHER -> TRUE

\* the status filter, lines 691-713
MatchesFilter(task, filter, instant, zone) ==
    CASE filter = "all" -> TRUE
      [] filter \in {"todo", "in_progress", "completed"} -> task.status = filter
      [] filter = "overdue" ->
            /\ task.due_date # NoDate
            /\ DateOf(task.due_date) < StartOfToday(instant, zone)
            /\ task.status # "completed"
      [] filter = "due_soon" ->
            /\ task.due_date # NoDate
            /\ DateOf(task.due_date) >= StartOfToday(instant, zone)
            /\ DateOf(task.due_date) < StartOfTomorrow(instant, zone)
            /\ task.status # "completed"
      [] OTHER -> TRUE

\* the category filter, lines 716-718
MatchesCategory(task, category) ==
    category = "all" \/ task.category_id = category

\* the search filter, lines 721-728
MatchesSearch(task, value) ==
    LET searchTerm == trim(toLowerCase(value))
    IN  \/ searchTerm = <<>>
        \/ includes(toLowerCase(task.title), searchTerm)
        \/ (task.description # <<>> /\ includes(toLowerCase(task.description), searchTerm))
        \/ \E i \in 1..Len(task.tags) : includes(toLowerCase(task.tags[i]), searchTerm)

priorityOrder_lowFirst(p) ==
    CASE p = "high" -> 2
      [] p = "medium" -> 1
      [] p = "low" -> 0
      [] OTHER -> 0 - 1

\* priorityOrder[p]; -1 stands for undefined
priorityOrder(p) ==
    CASE p = "high" -> 0
      [] p = "medium" -> 1
      [] p = "low" -> 2
      [] OTHER -> 0 - 1

Compare_undatedFirst(sortBy, a, b) ==
    CASE sortBy = "updated_at_desc" -> b.updated_at - a.updated_at
      [] sortBy = "updated_at_asc" -> a.updated_at - b.updated_at
      [] sortBy = "due_date_asc" ->
            IF a.due_date = NoDate /\ b.due_date = NoDate THEN 0
            ELSE IF a.due_date = NoDate THEN 0 - 1
            ELSE IF b.due_date = NoDate THEN 1
            ELSE DateOf(a.due_date) - DateOf(b.due_date)
      [] sortBy = "due_date_desc" ->
            IF a.due_date = NoDate /\ b.due_date = NoDate THEN 0
            ELSE IF a.due_date = NoDate THEN 0 - 1
            ELSE IF b.due_date = NoDate THEN 1
            ELSE DateOf(b.due_date) - DateOf(a.due_date)
      [] sortBy = "priority" ->
            IF priorityOrder(a.priority) < 0 \/ priorityOrder(b.priority) < 0 THEN 0
            ELSE priorityOrder(a.priority) - priorityOrder(b.priority)
      [] OTHER -> 0

\* the comparator of each sort key, lines 732-759; a NaN result counts as 0
Compare(sortBy, a, b) ==
    CASE sortBy = "updated_at_desc" -> b.updated_at - a.updated_at
      [] sortBy = "updated_at_asc" -> a.updated_at - b.updated_at
      [] sortBy = "due_date_asc" ->
            IF a.due_date = NoDate /\ b.due_date = NoDate THEN 0
            ELSE IF a.due_date = NoDate THEN 1
            ELSE IF b.due_date = NoDate THEN 0 - 1
            ELSE DateOf(a.due_date) - DateOf(b.due_date)
      [] sortBy = "due_date_desc" ->
            IF a.due_date = NoDate /\ b.due_date = NoDate THEN 0
            ELSE IF a.due_date = NoDate THEN 0 - 1
            ELSE IF b.due_date = NoDate THEN 1
            ELSE DateOf(b.due_date) - DateOf(a.due_date)
      [] sortBy = "priority" ->
            IF priorityOrder(a.priority) < 0 \/ priorityOrder(b.priority) < 0 THEN 0
            ELSE priorityOrder(a.priority) - priorityOrder(b.priority)
      [] OTHER -> 0

RECURSIVE InsertSorted_beforeEquals(_, _, _)
InsertSorted_beforeEquals(sortBy, s, x) ==
    IF s = <<>> THEN <<x>>
    ELSE IF Compare(sortBy, x, s[Len(s)]) <= 0
         THEN Append(InsertSorted_beforeEquals(sortBy, SubSeq(s, 1, Len(s) - 1), x),
                     s[Len(s)])
         ELSE Append(s, x)

RECURSIVE InsertSorted(_, _, _)
\* x inserted into the sorted s, after every element it does not come before
InsertSorted(sortBy, s, x) ==
    IF s = <<>> THEN <<x>>
    ELSE IF Compare(sortBy, x, s[Len(s)]) < 0
         THEN Append(InsertSorted(sortBy, SubSeq(s, 1, Len(s) - 1), x), s[Len(s)])
         ELSE Append(s, x)

RECURSIVE SortFrom(_, _, _)
SortFrom(sortBy, done, rest) ==
    IF rest = <<>> THEN done
    ELSE SortFrom(sortBy, InsertSorted(sortBy, done, Head(rest)), Tail(rest))

\* Array.prototype.sort with a comparator: a stable sort (insertion, as for short arrays)
Sort(sortBy, s) ==
    SortFrom(sortBy, <<>>, s)

getFilteredAndSortedTasks(list, filter, category, value, sortBy, instant, zone) ==
    LET Keep(task) ==
            /\ MatchesFilter(task, filter, instant, zone)
            /\ MatchesCategory(task, category)
            /\ MatchesSearch(task, value)
    IN  Sort(sortBy, SelectSeq(list, Keep))

\* the array held by the global tasks, had line 688 taken it itself and not a copy:
\* filter() makes a new array, sort() orders the array it is called on
tasksAfterSelection_sortsInPlace(list, filter, category, value, sortBy) ==
    IF filter = "all" /\ category = "all" /\ trim(toLowerCase(value)) = <<>>
    THEN Sort(sortBy, list)
    ELSE list

\* the array held by the global tasks after getFilteredAndSortedTasks ran:
\* let filtered = [...tasks] (688) is a copy, so the sort of 731-759 orders the copy
tasksAfterSelection(list, filter, category, value, sortBy) ==
    list

\* updateStats (lines 1044-1053): the four counts over a task list
StatsOf(list) ==
    LET Count(st) == Cardinality({i \in 1..Len(list) : list[i].status = st})
    IN  [total |-> Len(list), todo |-> Count("todo"),
         inProgress |-> Count("in_progress"), completed |-> Count("completed")]

\* no form was opened yet
NoSession ==
    [id |-> Null, progress_records |-> <<>>, edited |-> FALSE]

NoNotification ==
    [message |-> [text |-> "", detail |-> ""], type |-> ""]

\* the renderer before initApp runs: the globals of lines 7-12 and the page as loaded
IdleState ==
    [editSession |-> NoSession, taskPriority |-> "medium", taskStatus |-> "todo",
     progressRecords |-> <<>>, filteredTasks |-> <<>>, activeViews |-> {"tasks"}, currentView |-> "tasks",
     currentFilter |-> "all", currentCategory |-> "all",
     currentTaskId |-> Null, tasks |-> <<>>, categories |-> <<>>, taskModal |-> FALSE,
     taskTitle |-> <<>>, searchInput |-> <<>>, sortSelect |-> "updated_at_desc",
     loadingIndicator |-> FALSE, notification |-> NoNotification,
     tasksContainer |-> <<>>, paintTimers |-> <<>>, fallbackTimers |-> 0,
     categoryList |-> <<>>, stats |-> StatsOf(<<>>), reloads |-> <<>>, muts |-> <<>>,
     lastTasksResponse |-> [kind |-> "none", body |-> <<>>, reload |-> 0],
     gestures |-> 0, faults |-> 0, fx |-> <<>>, lv |-> <<>>]

\* the renderer's variables hold the state st
RendererIs(st) ==
    /\ editSession = st.editSession
    /\ taskPriority = st.taskPriority
    /\ taskStatus = st.taskStatus
    /\ progressRecords = st.progressRecords
    /\ filteredTasks = st.filteredTasks
    /\ activeViews = st.activeViews
    /\ currentView = st.currentView
    /\ currentFilter = st.currentFilter
    /\ currentCategory = st.currentCategory
    /\ currentTaskId = st.currentTaskId
    /\ tasks = st.tasks
    /\ categories = st.categories
    /\ taskModal = st.taskModal
    /\ taskTitle = st.taskTitle
    /\ searchInput = st.searchInput
    /\ sortSelect = st.sortSelect
    /\ loadingIndicator = st.loadingIndicator
    /\ notification = st.notification
    /\ tasksContainer = st.tasksContainer
    /\ paintTimers = st.paintTimers
    /\ fallbackTimers = st.fallbackTimers
    /\ categoryList = st.categoryList
    /\ stats = st.stats
    /\ reloads = st.reloads
    /\ muts = st.muts
    /\ lastTasksResponse = st.lastTasksResponse
    /\ gestures = st.gestures
    /\ faults = st.faults
    /\ fx = st.fx

\* the clock reads instant and the machine is in the time zone zone
ClockIs(instant, zone) ==
    /\ now = instant
    /\ tz = zone

\* the backend holds the tasks of store and has served no request yet
BackendIs(store) ==
    backend = [tasks |-> store, answers |-> {}, served |-> {}]

\* noon UTC of day 10, in a zone eight hours east of UTC; the backend's store plays
\* no part: the answers are drawn from the bodies of the model
DefaultClock ==
    /\ ClockIs(252, 8)
    /\ BackendIs(<<>>)

RendererIdle ==
    /\ RendererIs(IdleState)
    /\ DefaultClock

(***************************************************************************)
(* FrontendLogger (renderer.js 220-299)                                    *)
(***************************************************************************)
LogCapacity ==
    1000

Levels ==
    {"info", "warn", "error"}

LogEntry(clock, level) ==
    [timestamp |-> clock, level |-> level]

\* Array.prototype.slice(-n): the last n elements (all of them when there are fewer)
SliceLast(s, n) ==
    IF Len(s) <= n THEN s ELSE SubSeq(s, Len(s) - n + 1, Len(s))

\* slice(0, n): the first n elements
SliceFirst(s, n) ==
    IF Len(s) <= n THEN s ELSE SubSeq(s, 1, n)

saveToLocalStorage_keepOldest(logs, logEntry) ==
    LET pushed == Append(logs, logEntry)
    IN  IF Len(pushed) > LogCapacity THEN SliceFirst(pushed, LogCapacity) ELSE pushed

\* the new value of localStorage['frontendLogs'] after saveToLocalStorage(logEntry)
saveToLocalStorage(logs, logEntry) ==
    LET pushed == Append(logs, logEntry)
    IN  IF Len(pushed) > LogCapacity THEN SliceLast(pushed, LogCapacity) ELSE pushed

\* FrontendLogger.log forwards an entry to the backend iff its level is error
sendsToServer(level) ==
    level = "error"

RECURSIVE SaveAll(_, _, _)
\* the buffer after logging the levels of lv in order, the first at clock + 1
SaveAll(logs, clock, lv) ==
    IF lv = <<>> THEN logs
    ELSE SaveAll(saveToLocalStorage(logs, LogEntry(clock + 1, Head(lv))), clock + 1, Tail(lv))

RECURSIVE CountSent(_)
CountSent(lv) ==
    IF lv = <<>> THEN 0
    ELSE (IF sendsToServer(Head(lv)) THEN 1 ELSE 0) + CountSent(Tail(lv))

\* the effect on the logger's state of the FrontendLogger.log calls a handler makes,
\* lv being their levels in order
LogAll(lv) ==
    /\ frontendLogs' = SaveAll(frontendLogs, logClock, lv)
    /\ logged' = logged \o [i \in 1..Len(lv) |-> LogEntry(logClock + i, lv[i])]
    /\ logClock' = logClock + Len(lv)
    /\ logCalls' = logCalls + Len(lv)
    /\ logPosts' = logPosts + CountSent(lv)
    /\ logPostsIssued' = logPostsIssued + CountSent(lv)
    /\ UNCHANGED logPostsFailed

\* one FrontendLogger.log(level, ...) call
LogCall(level) ==
    /\ logCalls < MaxLogCalls
    /\ LogAll(<<level>>)
    /\ UNCHANGED <<shellVars, rendererVars>>

\* FrontendLogger.clearLogs(): localStorage.removeItem
ClearLogs ==
    /\ frontendLogs' = <<>>
    /\ logged' = <<>>
    /\ UNCHANGED <<logClock, logPosts, logPostsIssued, logPostsFailed, logCalls>>
    /\ UNCHANGED <<shellVars, rendererVars>>

\* POST /logs answered: sendToServer attaches no then-handler
LogPostDone ==
    /\ logPosts > 0
    /\ logPosts' = logPosts - 1
    /\ UNCHANGED <<frontendLogs, logged, logClock, logPostsIssued, logPostsFailed, logCalls>>
    /\ UNCHANGED <<shellVars, rendererVars>>

sendToServerCatch_relog ==
    /\ logPosts > 0
    /\ frontendLogs' = saveToLocalStorage(frontendLogs, LogEntry(logClock + 1, "error"))
    /\ logged' = Append(logged, LogEntry(logClock + 1, "error"))
    /\ logClock' = logClock + 1
    /\ logPosts' = logPosts
    /\ logPostsIssued' = logPostsIssued + 1
    /\ logPostsFailed' = logPostsFailed + 1
    /\ UNCHANGED logCalls
    /\ UNCHANGED <<shellVars, rendererVars>>

\* POST /logs failed: the catch of sendToServer writes to the console only
sendToServerCatch ==
    /\ logPosts > 0
    /\ logPosts' = logPosts - 1
    /\ logPostsFailed' = logPostsFailed + 1
    /\ UNCHANGED <<frontendLogs, logged, logClock, logPostsIssued, logCalls>>
    /\ UNCHANGED <<shellVars, rendererVars>>

\* the buffer a previous session left in localStorage: n info entries
Prefilled(n) ==
    [i \in 1..n |-> LogEntry(i, "info")]

PrefillSizes ==
    {0, LogCapacity - 1, LogCapacity}

\* the main process while the renderer runs: ready has fired, the window is open
ShellRunning ==
    /\ platform = "linux"
    /\ appState = "running"
    /\ openWindows = 1
    /\ mainWindow = TRUE
    /\ windowVisible = TRUE
    /\ windowsCreated = 1
    /\ pythonProcess = TRUE
    /\ procState = "running"
    /\ spawnCount = 1
    /\ killCount = 0

LoggerFresh ==
    /\ frontendLogs = <<>>
    /\ logged = <<>>
    /\ logClock = 0
    /\ logPosts = 0
    /\ logPostsIssued = 0
    /\ logPostsFailed = 0
    /\ logCalls = 0

InitLogger ==
    /\ \E n \in PrefillSizes :
          /\ frontendLogs = Prefilled(n)
          /\ logged = Prefilled(n)
          /\ logClock = n
    /\ logPosts = 0
    /\ logPostsIssued = 0
    /\ logPostsFailed = 0
    /\ logCalls = 0
    /\ ShellRunning
    /\ RendererIdle

NextLogger ==
    \/ \E level \in Levels : LogCall(level)
    \/ ClearLogs
    \/ LogPostDone
    \/ sendToServerCatch

SpecLogger ==
    InitLogger /\ [][NextLogger]_vars

(***************************************************************************)
(* The Electron main process (part_000)                                    *)
(***************************************************************************)
Platforms ==
    {"darwin", "win32", "linux"}

\* pythonProcess.kill(): SIGTERM to the child; a child that has exited is not signalled
SendKill(state) ==
    IF state = "running" THEN "signalled" ELSE state

killIfRunning_skip(ref, state) ==
    state

\* if (pythonProcess) { pythonProcess.kill(); }
killIfRunning(ref, state) ==
    IF ref THEN SendKill(state) ELSE state

KillsOf(ref) ==
    IF ref THEN 1 ELSE 0

\* createWindow(): a new BrowserWindow held by mainWindow (menu and tray follow)
createWindow ==
    /\ openWindows' = openWindows + 1
    /\ mainWindow' = TRUE
    /\ windowVisible' = TRUE
    /\ windowsCreated' = windowsCreated + 1

\* startPythonBackend(): spawn the child and keep the reference
startPythonBackend ==
    /\ pythonProcess' = TRUE
    /\ procState' = "running"
    /\ spawnCount' = spawnCount + 1

\* app.on('ready')
AppReady ==
    /\ appState = "launching"
    /\ appState' = "running"
    /\ startPythonBackend
    /\ createWindow
    /\ UNCHANGED <<platform, killCount>>
    /\ UNCHANGED <<logVars, rendererVars>>

\* the child process ends: a crash, its own exit, or the SIGTERM it was sent
BackendExits ==
    /\ procState \in {"running", "signalled"}
    /\ procState' = "exited"
    /\ UNCHANGED <<platform, appState, openWindows, mainWindow, windowVisible,
                   windowsCreated, pythonProcess, spawnCount, killCount>>
    /\ UNCHANGED <<logVars, rendererVars>>

\* pythonProcess.on('close'): the reference is dropped, nothing is restarted
BackendClose ==
    /\ appState \in {"running", "quitting"}
    /\ procState = "exited"
    /\ pythonProcess
    /\ pythonProcess' = FALSE
    /\ UNCHANGED <<platform, appState, openWindows, mainWindow, windowVisible,
                   windowsCreated, procState, spawnCount, killCount>>
    /\ UNCHANGED <<logVars, rendererVars>>

\* the user closes the window: mainWindow 'closed', then app 'window-all-closed',
\* which off macOS kills the backend and calls app.quit() (so 'before-quit' runs too)
CloseWindow ==
    /\ appState = "running"
    /\ openWindows = 1
    /\ openWindows' = 0
    /\ mainWindow' = FALSE
    /\ windowVisible' = FALSE
    /\ IF platform # "darwin"
       THEN /\ procState' = killIfRunning(pythonProcess,
                                          killIfRunning(pythonProcess, procState))
            /\ killCount' = killCount + 2 * KillsOf(pythonProcess)
            /\ appState' = "quitting"
       ELSE UNCHANGED <<procState, killCount, appState>>
    /\ UNCHANGED <<platform, windowsCreated, pythonProcess, spawnCount>>
    /\ UNCHANGED <<logVars, rendererVars>>

\* app.on('activate') (macOS dock click)
Activate ==
    /\ appState = "running"
    /\ platform = "darwin"
    /\ windowsCreated < MaxWindows
    /\ IF openWindows = 0
       THEN createWindow
       ELSE UNCHANGED <<openWindows, mainWindow, windowVisible, windowsCreated>>
    /\ UNCHANGED <<platform, appState, pythonProcess, procState, spawnCount, killCount>>
    /\ UNCHANGED <<logVars, rendererVars>>

\* tray menu 'show window': focus the window, or create one when mainWindow is null
TrayShowWindow ==
    /\ appState = "running"
    /\ windowsCreated < MaxWindows
    /\ IF mainWindow
       THEN UNCHANGED <<openWindows, mainWindow, windowVisible, windowsCreated>>
       ELSE createWindow
    /\ UNCHANGED <<platform, appState, pythonProcess, procState, spawnCount, killCount>>
    /\ UNCHANGED <<logVars, rendererVars>>

\* tray icon click: hide a visible window, show a hidden one
TrayClick ==
    /\ appState = "running"
    /\ mainWindow
    /\ windowVisible' = ~windowVisible
    /\ UNCHANGED <<platform, appState, openWindows, mainWindow, windowsCreated,
                   pythonProcess, procState, spawnCount, killCount>>
    /\ UNCHANGED <<logVars, rendererVars>>

\* app.quit() from the menu or the tray: app 'before-quit', then the windows close
Quit ==
    /\ appState = "running"
    /\ procState' = killIfRunning(pythonProcess, procState)
    /\ killCount' = killCount + KillsOf(pythonProcess)
    /\ appState' = "quitting"
    /\ openWindows' = 0
    /\ mainWindow' = FALSE
    /\ windowVisible' = FALSE
    /\ UNCHANGED <<platform, windowsCreated, pythonProcess, spawnCount>>
    /\ UNCHANGED <<logVars, rendererVars>>

\* the main process exits
AppExit ==
    /\ appState = "quitting"
    /\ appState' = "quit"
    /\ UNCHANGED <<platform, openWindows, mainWindow, windowVisible, windowsCreated,
                   pythonProcess, procState, spawnCount, killCount>>
    /\ UNCHANGED <<logVars, rendererVars>>

InitShell ==
    /\ platform \in Platforms
    /\ appState = "launching"
    /\ openWindows = 0
    /\ mainWindow = FALSE
    /\ windowVisible = FALSE
    /\ windowsCreated = 0
    /\ pythonProcess = FALSE
    /\ procState = "none"
    /\ spawnCount = 0
    /\ killCount = 0
    /\ LoggerFresh
    /\ RendererIdle

NextShell ==
    \/ AppReady
    \/ BackendExits
    \/ BackendClose
    \/ CloseWindow
    \/ Activate
    \/ TrayShowWindow
    \/ TrayClick
    \/ Quit
    \/ AppExit

SpecShell ==
    InitShell /\ [][NextShell]_vars

(***************************************************************************)
(* The renderer's handlers (renderer.js).  A handler is written as the      *)
(* source writes it: a chain of calls, each taking the state st the call    *)
(* before it left and giving the state it leaves.  st.lv collects the       *)
(* levels of the handler's FrontendLogger.log calls, st.fx its effects.     *)
(***************************************************************************)
Cur ==
    [editSession |-> editSession, taskPriority |-> taskPriority,
     taskStatus |-> taskStatus, progressRecords |-> progressRecords,
     filteredTasks |-> filteredTasks, activeViews |-> activeViews,
     currentView |-> currentView, currentFilter |-> currentFilter,
     currentCategory |-> currentCategory, currentTaskId |-> currentTaskId,
     tasks |-> tasks, categories |-> categories, taskModal |-> taskModal,
     taskTitle |-> taskTitle, searchInput |-> searchInput, sortSelect |-> sortSelect,
     loadingIndicator |-> loadingIndicator, notification |-> notification,
     tasksContainer |-> tasksContainer,
     paintTimers |-> paintTimers, fallbackTimers |-> fallbackTimers,
     categoryList |-> categoryList, stats |-> stats, reloads |-> reloads,
     muts |-> muts, lastTasksResponse |-> lastTasksResponse,
     gestures |-> gestures, faults |-> faults, fx |-> <<>>, lv |-> <<>>]

\* the handler ends: st is the renderer's next state
Commit(st) ==
    /\ editSession' = st.editSession
    /\ taskPriority' = st.taskPriority
    /\ taskStatus' = st.taskStatus
    /\ progressRecords' = st.progressRecords
    /\ filteredTasks' = st.filteredTasks
    /\ activeViews' = st.activeViews
    /\ currentView' = st.currentView
    /\ currentFilter' = st.currentFilter
    /\ currentCategory' = st.currentCategory
    /\ currentTaskId' = st.currentTaskId
    /\ tasks' = st.tasks
    /\ categories' = st.categories
    /\ taskModal' = st.taskModal
    /\ taskTitle' = st.taskTitle
    /\ searchInput' = st.searchInput
    /\ sortSelect' = st.sortSelect
    /\ loadingIndicator' = st.loadingIndicator
    /\ notification' = st.notification
    /\ tasksContainer' = st.tasksContainer
    /\ paintTimers' = st.paintTimers
    /\ fallbackTimers' = st.fallbackTimers
    /\ categoryList' = st.categoryList
    /\ stats' = st.stats
    /\ reloads' = st.reloads
    /\ muts' = st.muts
    /\ lastTasksResponse' = st.lastTasksResponse
    /\ gestures' = st.gestures
    /\ faults' = st.faults
    /\ fx' = st.fx
    /\ LogAll(st.lv)
    /\ UNCHANGED <<envVars, shellVars>>

Did(st, effect) ==
    [st EXCEPT !.fx = Append(@, effect)]

\* FrontendLogger.log(level, ...)
log(st, level) ==
    [st EXCEPT !.lv = Append(@, level)]

\* a user gesture: counted, to bound the model
Gesture(st) ==
    [st EXCEPT !.gestures = @ + 1]

\* an answer that is a failure or malformed: counted, to bound the model
Fault(st, resp) ==
    IF resp.kind = "array" THEN st ELSE [st EXCEPT !.faults = @ + 1]

\* history: GET /tasks of reload r got the answer resp
TasksAnswered(st, r, resp) ==
    [Fault(st, resp) EXCEPT
        !.reloads[r].tasksAnswer = resp.kind,
        !.lastTasksResponse = [kind |-> resp.kind, body |-> resp.body, reload |-> r]]

\* history: GET /categories of reload r got the answer resp
CategoriesAnswered(st, r, resp) ==
    [Fault(st, resp) EXCEPT !.reloads[r].categoriesAnswer = resp.kind]

\* showLoading (1059-1061)
showLoading(st) ==
    Did([st EXCEPT !.loadingIndicator = TRUE], "showLoading")

\* hideLoading (1064-1066)
hideLoading(st) ==
    Did([st EXCEPT !.loadingIndicator = FALSE], "hideLoading")

Message(text, detail) ==
    [text |-> text, detail |-> detail]

NotifyEffect(type) ==
    CASE type = "success" -> "notify:success"
      [] type = "error" -> "notify:error"
      [] type = "warning" -> "notify:warning"
      [] OTHER -> "notify:info"

\* showNotification (1069-1085): the message and the type shown
showNotification(st, message, type) ==
    Did([st EXCEPT !.notification = [message |-> message, type |-> type]],
        NotifyEffect(type))

\* renderTasks (582-684): the container is emptied at once, the cards of the list
\* filtered now are added 50 ms later
renderTasks(st) ==
    LET selected ==
            getFilteredAndSortedTasks(st.tasks, st.currentFilter, st.currentCategory,
                                      st.searchInput, st.sortSelect, now, tz)
        logged2 == log(log(st, "info"), "info")
    IN  Did([logged2 EXCEPT !.tasks = tasksAfterSelection(st.tasks, st.currentFilter,
                                                          st.currentCategory,
                                                          st.searchInput, st.sortSelect),
                            !.tasksContainer = <<>>,
                            !.paintTimers = Append(@, Ids(selected)),
                            !.filteredTasks = selected],
            "renderTasks")

\* renderCategories (765-804)
renderCategories(st) ==
    Did([log(st, "info") EXCEPT !.categoryList = Ids(st.categories)], "renderCategories")

\* updateStats (1044-1056)
updateStats(st) ==
    Did([st EXCEPT !.stats = StatsOf(st.tasks)], "updateStats")

\* closeTaskModal (852-855)
closeTaskModal(st) ==
    Did([st EXCEPT !.taskModal = FALSE, !.currentTaskId = Null], "closeTaskModal")

\* loadAllData (194-200), up to the two requests being in flight; caller is who called
\* it and awaits its promise, mut the write it follows (0: none)
loadAllData(st, caller, mut) ==
    LET shown == showLoading(Did(st, "loadAllData"))
        asked == Did(Did(log(shown, "info"), "GET /tasks"), "GET /categories")
    IN  [asked EXCEPT !.reloads = Append(@, [tasksReq |-> "pending",
                                             categoriesReq |-> "pending",
                                             outcome |-> "pending",
                                             caller |-> caller, mut |-> mut,
                                             tasksAnswer |-> "none",
                                             categoriesAnswer |-> "none"])]

loadTasksThen_ignoreSuperseded(st, r, resp) ==
    LET seen == log(st, "info")
        kept == IF r < Len(st.reloads) THEN st.tasks
                ELSE IF resp.kind = "array" THEN resp.body ELSE <<>>
    IN  [log(seen, IF resp.kind = "array" THEN "info" ELSE "warn") EXCEPT
            !.tasks = kept,
            !.reloads[r].tasksReq = "ok"]

loadTasksThen_throwOnMalformed(st, r, resp) ==
    LET seen == log(st, "info")
    IN  IF resp.kind = "array"
        THEN [log(seen, "info") EXCEPT !.tasks = resp.body,
                                       !.reloads[r].tasksReq = "ok"]
        ELSE [log(seen, "error") EXCEPT !.reloads[r].tasksReq = "failed"]

\* loadTasks, the then of GET /tasks (496-508)
loadTasksThen(st, r, resp) ==
    LET seen == log(st, "info")
    IN  IF resp.kind = "array"
        THEN [log(seen, "info") EXCEPT !.tasks = resp.body,
                                       !.reloads[r].tasksReq = "ok"]
        ELSE [log(seen, "warn") EXCEPT !.tasks = <<>>,
                                       !.reloads[r].tasksReq = "ok"]

\* loadTasks, the catch of GET /tasks (509-514)
loadTasksCatch(st, r, resp) ==
    [log(st, "error") EXCEPT !.tasks = <<>>,
                             !.reloads[r].tasksReq = "failed"]

\* loadCategories, the then of GET /categories (520-534)
loadCategoriesThen(st, r, resp) ==
    LET seen == log(st, "info")
    IN  IF resp.kind = "array"
        THEN [log(seen, "info") EXCEPT !.categories = resp.body,
                                       !.reloads[r].categoriesReq = "ok"]
        ELSE [log(seen, "warn") EXCEPT !.categories = <<>>,
                                       !.reloads[r].categoriesReq = "ok"]

\* loadCategories, the catch of GET /categories (535-540)
loadCategoriesCatch(st, r) ==
    [log(st, "error") EXCEPT !.categories = <<>>,
                             !.reloads[r].categoriesReq = "failed"]

loadAllDataThen_noRender(st, r) ==
    LET hidden == hideLoading(log(st, "info"))
    IN  Did([hidden EXCEPT !.reloads[r].outcome = "resolved"], "resolve")

\* loadAllData, the then of Promise.all (201-210)
loadAllDataThen(st, r) ==
    LET hidden == hideLoading(log(st, "info"))
        drawn == renderCategories(renderTasks(hidden))
        counted == IF drawn.currentView = "stats" THEN updateStats(drawn) ELSE drawn
    IN  Did([counted EXCEPT !.reloads[r].outcome = "resolved"], "resolve")

loadAllDataCatch_resetLists(st, r) ==
    LET hidden == hideLoading(log(st, "error"))
        told == showNotification(hidden, Message("loadFailed", "transport"), "error")
    IN  Did([told EXCEPT !.tasks = <<>>, !.categories = <<>>,
                         !.reloads[r].outcome = "rejected"], "reject")

\* loadAllData, the catch of Promise.all (211-216)
loadAllDataCatch(st, r) ==
    LET hidden == hideLoading(log(st, "error"))
        told == showNotification(hidden, Message("loadFailed", "transport"), "error")
    IN  Did([told EXCEPT !.reloads[r].outcome = "rejected"], "reject")

\* setTimeout(..., 200) of saveTask (917-922, 928-933)
setFallbackTimer(st) ==
    Did([st EXCEPT !.fallbackTimers = @ + 1], "setTimeout200")

\* what the caller of loadAllData chained on its promise:
\* saveTask 913-935, createCategory 993-998; deleteTask and the refresh button nothing
afterReload(st, rl, outcome) ==
    CASE rl.caller = "saveTask" /\ outcome = "resolved" ->
            showNotification(setFallbackTimer(log(st, "info")),
                             Message(IF st.currentTaskId # Null THEN "taskUpdated"
                                                                ELSE "taskCreated", ""),
                             "success")
      [] rl.caller = "saveTask" /\ outcome = "rejected" ->
            showNotification(setFallbackTimer(log(st, "error")),
                             Message(IF st.currentTaskId # Null
                                     THEN "taskUpdatedReloadFailed"
                                     ELSE "taskCreatedReloadFailed", ""),
                             "warning")
      [] rl.caller = "createCategory" /\ outcome = "resolved" ->
            showNotification(renderTasks(renderCategories(st)),
                             Message("categoryCreated", ""), "success")
      [] OTHER -> st

\* Promise.all of reload r after one of its two requests settled: rejected by the
\* first failure, fulfilled once both are fulfilled
settle(st, r, failedNow) ==
    LET rl == st.reloads[r]
    IN  IF rl.outcome # "pending" THEN st
        ELSE IF failedNow THEN afterReload(loadAllDataCatch(st, r), rl, "rejected")
        ELSE IF rl.tasksReq = "ok" /\ rl.categoriesReq = "ok"
             THEN afterReload(loadAllDataThen(st, r), rl, "resolved")
             ELSE st

(***************************************************************************)
(* Write operations: saveTask, deleteTask, createCategory                  *)
(***************************************************************************)
Request(kind, id, title) ==
    [kind |-> kind, id |-> id, title |-> title, priority |-> "", status |-> "",
     progress_records |-> <<>>, state |-> "pending",
     requests |-> 1, reload |-> 0, error |-> "none"]

errorMessage_generic(what, err) ==
    IF err.hasResponse /\ err.hasMessage THEN Message(what, "server")
    ELSE Message(what, "transport")

\* the message of a failed saveTask (940-947) or createCategory (1003-1010)
errorMessage(what, err) ==
    IF err.hasResponse /\ err.status = 409 THEN Message("categoryExists", "")
    ELSE IF err.hasResponse /\ err.hasMessage THEN Message(what, "server")
    ELSE Message(what, "transport")

taskData_defaultPriority(st) ==
    [title |-> trim(st.taskTitle), priority |-> "medium", status |-> st.taskStatus,
     progress_records |->
        [i \in 1..Len(st.progressRecords) |->
            ProgressRecord(st.progressRecords[i].textContent,
                           st.progressRecords[i].createdAt)]]

\* taskData of saveTask (869-895): the fields of the form, and one progress record
\* for each .progress-record element, from its text and its data-created-at
taskData(st) ==
    [title |-> trim(st.taskTitle), priority |-> st.taskPriority,
     status |-> st.taskStatus,
     progress_records |->
        [i \in 1..Len(st.progressRecords) |->
            ProgressRecord(st.progressRecords[i].textContent,
                           st.progressRecords[i].createdAt)]]

\* saveTask from showLoading on (897-905): PUT when a task is open, POST otherwise
sendTask(st, data) ==
    LET shown == showLoading(log(st, "info"))
        kind == IF st.currentTaskId # Null THEN "updateTask" ELSE "createTask"
    IN  Did([log(shown, "info") EXCEPT
                !.muts = Append(@, [Request(kind, st.currentTaskId, data.title) EXCEPT
                                       !.priority = data.priority,
                                       !.status = data.status,
                                       !.progress_records = data.progress_records])],
            IF kind = "updateTask" THEN "PUT /tasks/id" ELSE "POST /tasks")

saveTask_checkUntrimmed(st) ==
    IF st.taskTitle = <<>>
    THEN showNotification(st, Message("titleRequired", ""), "warning")
    ELSE sendTask(st, taskData(st))

\* saveTask (858-905): validate, collect the form, show loading, send PUT or POST
saveTask(st) ==
    IF trim(st.taskTitle) = <<>>
    THEN showNotification(st, Message("titleRequired", ""), "warning")
    ELSE sendTask(st, taskData(st))

saveTaskThen_notifyEarly(st, m) ==
    LET closed == closeTaskModal(hideLoading(log(st, "info")))
        reloading == loadAllData(closed, "saveTask", m)
    IN  [showNotification(reloading, Message("taskCreated", ""), "success") EXCEPT
            !.muts[m].state = "ok", !.muts[m].reload = Len(st.reloads) + 1]

\* saveTask, the then of its request (907-913)
saveTaskThen(st, m) ==
    LET closed == closeTaskModal(hideLoading(log(st, "info")))
    IN  [loadAllData(closed, "saveTask", m) EXCEPT
            !.muts[m].state = "ok", !.muts[m].reload = Len(st.reloads) + 1]

saveTaskCatch_retry(st, m, err) ==
    LET hidden == hideLoading(log(st, "error"))
    IN  Did([hidden EXCEPT !.muts[m].requests = @ + 1], "POST /tasks")

\* saveTask, the catch of its request (936-949)
saveTaskCatch(st, m, err) ==
    LET hidden == hideLoading(log(st, "error"))
    IN  [showNotification(hidden, errorMessage("saveFailed", err), "error") EXCEPT
            !.muts[m].state = "failed"]

\* deleteTask (953-959): nothing without an open task or without the confirmation
deleteTask(st, confirmed) ==
    IF st.currentTaskId = Null \/ ~confirmed THEN st
    ELSE Did([showLoading(st) EXCEPT
                 !.muts = Append(@, Request("deleteTask", st.currentTaskId, <<>>))],
             "DELETE /tasks/id")

\* deleteTask, the then of its request (960-965)
deleteTaskThen(st, m) ==
    LET closed == closeTaskModal(hideLoading(st))
        reloading == loadAllData(closed, "deleteTask", m)
    IN  [showNotification(reloading, Message("taskDeleted", ""), "success") EXCEPT
            !.muts[m].state = "ok", !.muts[m].reload = Len(st.reloads) + 1]

\* deleteTask, the catch of its request (966-969)
deleteTaskCatch(st, m) ==
    [showNotification(hideLoading(st), Message("deleteFailed", "transport"), "error") EXCEPT
        !.muts[m].state = "failed"]

\* createCategory (974-988): nothing for a cancelled or blank name
createCategory(st, categoryName) ==
    IF trim(categoryName) = <<>> THEN st
    ELSE Did([showLoading(log(st, "info")) EXCEPT
                 !.muts = Append(@, Request("createCategory", Null, trim(categoryName)))],
             "POST /categories")

\* createCategory, the then of its request (989-993)
createCategoryThen(st, m) ==
    [loadAllData(hideLoading(log(st, "info")), "createCategory", m) EXCEPT
        !.muts[m].state = "ok", !.muts[m].reload = Len(st.reloads) + 1]

\* createCategory, the catch of its request (999-1012)
createCategoryCatch(st, m, err) ==
    LET hidden == hideLoading(log(st, "error"))
    IN  [showNotification(hidden, errorMessage("createCategoryFailed", err), "error") EXCEPT
            !.muts[m].state = "failed"]

(***************************************************************************)
(* Actions of the renderer                                                 *)
(***************************************************************************)
PendingWrites ==
    Cardinality({m \in 1..Len(muts) : muts[m].state = "pending"})

\* one more loadAllData fits the bound, counting those the pending writes will start
CanReload ==
    Len(reloads) + PendingWrites < MaxReloads

CanWrite ==
    Len(muts) < MaxWrites /\ CanReload

CanGesture ==
    gestures < MaxGestures

CanAnswer(resp) ==
    resp.kind = "array" \/ faults < MaxFaults

\* the refresh button (103)
Refresh ==
    /\ CanReload
    /\ Commit(loadAllData(Cur, "refresh", 0))

\* GET /tasks of reload r is answered
TaskResponse(r, resp) ==
    /\ r \in 1..Len(reloads)
    /\ reloads[r].tasksReq = "pending"
    /\ CanAnswer(resp)
    /\ LET st == TasksAnswered(Cur, r, resp)
       IN  Commit(settle(IF resp.kind = "error" THEN loadTasksCatch(st, r, resp)
                                                ELSE loadTasksThen(st, r, resp),
                         r, resp.kind = "error"))

\* GET /categories of reload r is answered
CategoryResponse(r, resp) ==
    /\ r \in 1..Len(reloads)
    /\ reloads[r].categoriesReq = "pending"
    /\ CanAnswer(resp)
    /\ LET st == CategoriesAnswered(Cur, r, resp)
       IN  Commit(settle(IF resp.kind = "error" THEN loadCategoriesCatch(st, r)
                                                ELSE loadCategoriesThen(st, r, resp),
                         r, resp.kind = "error"))

\* the callback of a 50 ms timer of renderTasks (598-683): the empty state replaces
\* the container's content, cards are appended to it
paint(st) ==
    Did([st EXCEPT
            !.paintTimers = Tail(@),
            !.tasksContainer = IF Head(st.paintTimers) = <<>> THEN <<"empty-state">>
                               ELSE @ \o Head(st.paintTimers)],
        "paint")

\* a 50 ms timer of renderTasks fires
Paint ==
    /\ paintTimers # <<>>
    /\ Commit(paint(Cur))

\* a 200 ms timer of saveTask fires (917-922)
FallbackTimer ==
    /\ fallbackTimers > 0
    /\ LET fired == Did([Cur EXCEPT !.fallbackTimers = @ - 1], "timeout200")
       IN  Commit(IF currentView = "tasks" THEN renderTasks(log(fired, "info")) ELSE fired)

switchView_statsOnEveryView(st, view) ==
    IF st.currentView = view THEN st
    ELSE updateStats(Did([st EXCEPT !.currentView = view, !.activeViews = {view}],
                         "switchView"))

\* switchView (139-159): nothing when the view is the current one; otherwise each
\* button and panel is active exactly when it is the one of view, and the stats
\* view gets its numbers
switchView(st, view) ==
    IF st.currentView = view THEN st
    ELSE LET switched ==
                 Did([st EXCEPT !.currentView = view,
                                !.activeViews = {v \in Views : view = v}],
                     "switchView")
         IN  IF view = "stats" THEN updateStats(switched) ELSE switched

\* a click on one of the three view buttons (87-89); the effects start with the
\* button and the view it asks for
SwitchView(view) ==
    /\ CanGesture
    /\ Commit(switchView(Did(Did(Gesture(Cur), "click:view"), view), view))

\* setFilter (162-175)
SetFilter(filter) ==
    /\ CanGesture
    /\ Commit(IF currentFilter = filter THEN Gesture(Cur)
              ELSE renderTasks([Gesture(Cur) EXCEPT !.currentFilter = filter]))

\* setCategoryFilter (178-191), from a click on an item of the category list
SetCategoryFilter(categoryId) ==
    /\ CanGesture
    /\ categoryId = "all" \/ \E i \in 1..Len(categoryList) : categoryList[i] = categoryId
    /\ Commit(IF currentCategory = categoryId THEN Gesture(Cur)
              ELSE renderTasks([Gesture(Cur) EXCEPT !.currentCategory = categoryId]))

\* the sort select changes (122)
SortChange(key) ==
    /\ CanGesture
    /\ key # sortSelect
    /\ Commit(renderTasks([Gesture(Cur) EXCEPT !.sortSelect = key]))

\* the user types in the search box
TypeSearch(value) ==
    /\ CanGesture
    /\ value # searchInput
    /\ Commit(Did([Gesture(Cur) EXCEPT !.searchInput = value], "type"))

\* the search button, or Enter in the search box (124-132)
SearchClick ==
    /\ CanGesture
    /\ Commit(renderTasks(Gesture(Cur)))

addProgressRecordToDOM_rawHTML(st, text, createdAt) ==
    [st EXCEPT !.progressRecords =
                  Append(@, [textContent |-> textContent(text), createdAt |-> createdAt])]

\* addProgressRecordToDOM (1025-1041): a .progress-record element is appended; its
\* text goes through escapeHTML into innerHTML, createdAt into data-created-at
addProgressRecordToDOM(st, text, createdAt) ==
    [st EXCEPT !.progressRecords =
                  Append(@, [textContent |-> textContent(escapeHTML(text)),
                             createdAt |-> createdAt])]

\* addProgressRecord (1016-1022), with the text typed into the new-progress field
addProgressRecord(st, value) ==
    IF trim(value) = <<>> THEN st
    ELSE Did(addProgressRecordToDOM(st, trim(value), now), "addProgressRecord")

\* the values form.reset() gives the title, the priority and the status
FormDefaults ==
    [title |-> <<>>, priority |-> "medium", status |-> "todo"]

\* openCreateTaskModal (807-820)
openCreateTaskModal(st) ==
    LET reset == [st EXCEPT !.currentTaskId = Null,
                            !.taskTitle = FormDefaults.title,
                            !.taskPriority = FormDefaults.priority,
                            !.taskStatus = FormDefaults.status,
                            !.progressRecords = <<>>]
    IN  Did([renderCategories(reset) EXCEPT !.taskModal = TRUE], "openModal")

RECURSIVE addAll(_, _)
\* task.progress_records.forEach(record => addProgressRecordToDOM(...)) (838-842)
addAll(st, records) ==
    IF records = <<>> THEN st
    ELSE addAll(addProgressRecordToDOM(st, Head(records).text, Head(records).created_at),
                Tail(records))

openTaskDetails_keepsShownRecords(st, taskId) ==
    LET found == {i \in 1..Len(st.tasks) : st.tasks[i].id = taskId}
    IN  IF found = {} THEN st
        ELSE LET task == st.tasks[CHOOSE i \in found : \A j \in found : i <= j]
                 filled == [st EXCEPT !.currentTaskId = taskId,
                                      !.taskTitle = task.title,
                                      !.taskPriority = IF task.priority = Null
                                                       THEN FormDefaults.priority
                                                       ELSE task.priority,
                                      !.taskStatus = task.status]
             IN  Did([addAll(filled, task.progress_records) EXCEPT !.taskModal = TRUE],
                     "openModal")

\* openTaskDetails (823-849): tasks.find, then the form is filled from the task
openTaskDetails(st, taskId) ==
    LET found == {i \in 1..Len(st.tasks) : st.tasks[i].id = taskId}
    IN  IF found = {} THEN st
        ELSE LET task == st.tasks[CHOOSE i \in found : \A j \in found : i <= j]
                 filled == [st EXCEPT !.currentTaskId = taskId,
                                      !.taskTitle = task.title,
                                      !.taskPriority = IF task.priority = Null
                                                       THEN FormDefaults.priority
                                                       ELSE task.priority,
                                      !.taskStatus = task.status,
                                      !.progressRecords = <<>>]
             IN  Did([addAll(filled, task.progress_records) EXCEPT !.taskModal = TRUE],
                     "openModal")

\* history: the form was opened on the task with the id taskId, or on no task
Opened(st, taskId) ==
    LET found == {i \in 1..Len(tasks) : tasks[i].id = taskId}
    IN  IF taskId # Null /\ found = {} THEN st
        ELSE [st EXCEPT !.editSession =
                 [id |-> taskId,
                  progress_records |->
                     IF taskId = Null THEN <<>>
                     ELSE tasks[CHOOSE i \in found : \A j \in found : i <= j].progress_records,
                  edited |-> FALSE]]

\* history: the user changed the form
Edited(st) ==
    [st EXCEPT !.editSession.edited = TRUE]

\* the create buttons (101-102): openCreateTaskModal
OpenCreateTaskModal ==
    /\ CanGesture
    /\ Commit(Opened(openCreateTaskModal(Did(Gesture(Cur), "click:create")), Null))

\* a click on a card of the container: openTaskDetails(task.id) (677)
OpenTaskDetails(taskId) ==
    /\ CanGesture
    /\ \E i \in 1..Len(tasksContainer) : tasksContainer[i] = taskId
    /\ taskId # "empty-state"
    /\ Commit(Opened(openTaskDetails(Did(Did(Gesture(Cur), "click:card"), taskId), taskId),
                     taskId))

\* the close and cancel buttons of the modal: closeTaskModal (852-855)
CloseTaskModal ==
    /\ CanGesture
    /\ taskModal
    /\ Commit(closeTaskModal(Gesture(Cur)))

\* the user types in the title field of the form
TypeTitle(value) ==
    /\ CanGesture
    /\ taskModal
    /\ value # taskTitle
    /\ Commit(Edited(Did([Gesture(Cur) EXCEPT !.taskTitle = value], "type")))

\* the user fills the title, the priority and the status of the form (no handler
\* runs on these inputs)
EditForm(title, priority, status) ==
    /\ CanGesture
    /\ taskModal
    /\ <<title, priority, status>> # <<taskTitle, taskPriority, taskStatus>>
    /\ Commit(Edited(Did([Gesture(Cur) EXCEPT !.taskTitle = title,
                                              !.taskPriority = priority,
                                              !.taskStatus = status],
                         "type")))

\* the user types value into the new-progress field and clicks the add button (112)
AddProgressRecord(value) ==
    /\ CanGesture
    /\ taskModal
    /\ Commit(Edited(addProgressRecord(Did(Gesture(Cur), "click:addProgress"), value)))

\* the save button of the modal: saveTask
SaveTask ==
    /\ taskModal
    /\ trim(taskTitle) = <<>> \/ CanWrite
    /\ Commit(saveTask(Did(Cur, "click:save")))

\* the delete button of the modal: deleteTask, and the answer to its confirm()
DeleteTask(confirmed) ==
    /\ taskModal
    /\ IF currentTaskId = Null \/ ~confirmed THEN CanGesture ELSE CanWrite
    /\ Commit(IF currentTaskId = Null \/ ~confirmed THEN deleteTask(Gesture(Cur), confirmed)
              ELSE deleteTask(Cur, confirmed))

\* the add-category button: createCategory, and the answer to its prompt()
\* (a cancelled prompt gives null, which returns as the empty name does)
CreateCategory(categoryName) ==
    /\ IF trim(categoryName) = <<>> THEN CanGesture ELSE CanWrite
    /\ Commit(IF trim(categoryName) = <<>> THEN createCategory(Gesture(Cur), categoryName)
              ELSE createCategory(Cur, categoryName))

\* the request of write m succeeds
WriteSucceeds(m) ==
    /\ m \in 1..Len(muts)
    /\ muts[m].state = "pending"
    /\ Commit(CASE muts[m].kind = "deleteTask" -> deleteTaskThen(Cur, m)
               [] muts[m].kind = "createCategory" -> createCategoryThen(Cur, m)
               [] OTHER -> saveTaskThen(Cur, m))

\* the request of write m fails
WriteFails(m, err) ==
    /\ m \in 1..Len(muts)
    /\ muts[m].state = "pending"
    /\ faults < MaxFaults
    /\ LET st == [Cur EXCEPT !.faults = @ + 1, !.muts[m].error = err]
       IN  Commit(CASE muts[m].kind = "deleteTask" -> deleteTaskCatch(st, m)
                    [] muts[m].kind = "createCategory" -> createCategoryCatch(st, m, err)
                    [] OTHER -> saveTaskCatch(st, m, err))

\* the clear button of the log viewer (343-348): FrontendLogger.clearLogs
ClearLogsClick ==
    /\ CanGesture
    /\ frontendLogs # <<>>
    /\ frontendLogs' = <<>>
    /\ logged' = <<>>
    /\ gestures' = gestures + 1
    /\ fx' = <<"clearLogs">>
    /\ UNCHANGED <<logClock, logPosts, logPostsIssued, logPostsFailed, logCalls>>
    /\ UNCHANGED <<sessionVars, domVars, netVars, envVars, lastTasksResponse, faults,
                   filteredTasks, editSession, shellVars>>

TitleValues ==
    {<<>>, <<" ">>, <<"a">>}

SearchValues ==
    {<<>>, <<"B">>}

\* the renderer once initApp has run (76-82, 1179): the first loadAllData is in flight
Init ==
    LET st == loadAllData(IdleState, "initApp", 0)
    IN  /\ RendererIs(st)
        /\ DefaultClock
        /\ frontendLogs = SaveAll(<<>>, 0, st.lv)
        /\ logged = SaveAll(<<>>, 0, st.lv)
        /\ logClock = Len(st.lv)
        /\ logCalls = Len(st.lv)
        /\ logPosts = 0
        /\ logPostsIssued = 0
        /\ logPostsFailed = 0
        /\ ShellRunning

\* reloads: the first one, and those of the refresh button
Next ==
    \/ Refresh
    \/ \E r \in 1..MaxReloads : \E resp \in Responses(TaskBodies) : TaskResponse(r, resp)
    \/ \E r \in 1..MaxReloads : \E resp \in Responses(CategoryBodies) : CategoryResponse(r, resp)
    \/ Paint
    \/ \E view \in Views : SwitchView(view)

Spec ==
    Init /\ [][Next]_vars

\* writes, with the gestures that lead to them and the reloads that follow them
NextWrite ==
    \/ \E r \in 1..MaxReloads : \E resp \in Responses(TaskBodies) : TaskResponse(r, resp)
    \/ \E r \in 1..MaxReloads : \E resp \in Responses(CategoryBodies) : CategoryResponse(r, resp)
    \/ Paint
    \/ FallbackTimer
    \/ OpenCreateTaskModal
    \/ \E taskId \in {"t1", "t2"} : OpenTaskDetails(taskId)
    \/ CloseTaskModal
    \/ \E value \in TitleValues : TypeTitle(value)
    \/ SaveTask
    \/ \E confirmed \in BOOLEAN : DeleteTask(confirmed)
    \/ \E categoryName \in TitleValues : CreateCategory(categoryName)
    \/ \E m \in 1..MaxWrites : WriteSucceeds(m)
    \/ \E m \in 1..MaxWrites : \E err \in WriteErrors : WriteFails(m, err)

SpecWrite ==
    Init /\ [][NextWrite]_vars

\* one reload, with the gestures that choose what the task list shows
NextView ==
    \/ \E r \in 1..MaxReloads : \E resp \in Responses(TaskBodies) : TaskResponse(r, resp)
    \/ \E r \in 1..MaxReloads : \E resp \in Responses(CategoryBodies) : CategoryResponse(r, resp)
    \/ Paint
    \/ \E view \in Views : SwitchView(view)
    \/ \E filter \in Filters : SetFilter(filter)
    \/ \E categoryId \in {"all", "c1", "c2"} : SetCategoryFilter(categoryId)
    \/ \E key \in SortKeys : SortChange(key)
    \/ \E value \in SearchValues : TypeSearch(value)
    \/ SearchClick
    \/ ClearLogsClick
    \/ LogPostDone
    \/ sendToServerCatch

SpecView ==
    Init /\ [][NextView]_vars

(***************************************************************************)
(* The task list as an input: getFilteredAndSortedTasks over lists, clocks  *)
(* and zones drawn from bounded sets                                       *)
(***************************************************************************)
\* hours east of UTC: New York in winter, Greenwich, Beijing
Zones ==
    {0 - 5, 0, 8}

\* 02:00, 12:00 and 22:00 UTC of day 10
Instants ==
    {242, 252, 262}

\* the local calendar day of an instant: getDate() and its month and year
LocalDay(instant, zone) ==
    (instant + zone) \div 24

IdAt(i) ==
    <<"t1", "t2", "t3", "t4", "t5", "t6", "t7", "t8">>[i]

\* the task list whose i-th task has the fields kinds[i] and the id IdAt(i)
TasksOf(kinds) ==
    [i \in 1..Len(kinds) |->
        Task(IdAt(i), <<"A", "b">>, Null, kinds[i].priority, kinds[i].due_date,
             kinds[i].status, <<>>, kinds[i].updated_at)]

SeqsUpTo(n, S) ==
    UNION {[1..k -> S] : k \in 0..n}

\* a priority the code does not know, and a task that has none
Priorities ==
    {"high", "medium", "low", "urgent", Null}

PriorityKinds ==
    [priority : Priorities, due_date : {NoDate}, status : {"todo"}, updated_at : {1}]

DueDateKinds ==
    [priority : {"medium"}, due_date : {NoDate, 9, 10}, status : {"todo"},
     updated_at : {1}]

UpdatedAtKinds ==
    [priority : {"medium"}, due_date : {NoDate}, status : {"todo"}, updated_at : {1, 2}]

\* due dates from two days before to two days after day 10, and every status
StatusKinds ==
    [priority : {"medium"}, due_date : {NoDate} \cup 8..12,
     status : {"todo", "in_progress", "completed"}, updated_at : {1}]

\* the list of the sort example: low, high, medium, high, low, medium
ShuffledPriorities ==
    [i \in 1..6 |-> [priority |-> <<"low", "high", "medium", "high", "low", "medium">>[i],
                     due_date |-> NoDate, status |-> "todo", updated_at |-> 1]]

\* lists whose order matters, read at the default clock
OrderInputs ==
    {TasksOf(kinds) : kinds \in SeqsUpTo(MaxTasks, PriorityKinds)
                                  \cup SeqsUpTo(MaxTasks, DueDateKinds)
                                  \cup SeqsUpTo(MaxTasks, UpdatedAtKinds)
                                  \cup {ShuffledPriorities}}

\* lists whose due dates matter, read at every clock
DueInputs ==
    {TasksOf(kinds) : kinds \in SeqsUpTo(1, StatusKinds)
                                  \cup [1..2 -> {k \in StatusKinds :
                                                    /\ k.due_date \in 9..11
                                                    /\ k.status # "in_progress"}]}

\* the renderer once the first loadAllData was answered with list and painted
Loaded(list) ==
    LET tasksResp == [kind |-> "array", body |-> list]
        categoriesResp == [kind |-> "array", body |-> CategoryListA]
        asked == loadAllData(IdleState, "initApp", 0)
        first == settle(loadTasksThen(TasksAnswered(asked, 1, tasksResp), 1, tasksResp),
                        1, FALSE)
        second == settle(loadCategoriesThen(CategoriesAnswered(first, 1, categoriesResp),
                                            1, categoriesResp),
                         1, FALSE)
    IN  [paint(second) EXCEPT !.fx = <<"paint">>]

\* the task list is loaded; the list, the clock and the zone are the inputs
InitSelect ==
    /\ \/ DefaultClock /\ tasks \in OrderInputs
       \/ \E instant \in Instants : \E zone \in Zones :
             ClockIs(instant, zone) /\ BackendIs(<<>>) /\ tasks \in DueInputs
    /\ LET st == Loaded(tasks)
       IN  /\ RendererIs(st)
           /\ frontendLogs = SaveAll(<<>>, 0, st.lv)
           /\ logged = SaveAll(<<>>, 0, st.lv)
           /\ logClock = Len(st.lv)
           /\ logCalls = Len(st.lv)
           /\ logPosts = 0
           /\ logPostsIssued = 0
           /\ logPostsFailed = 0
           /\ ShellRunning

\* the gestures that make renderTasks call getFilteredAndSortedTasks
NextSelect ==
    \/ \E filter \in Filters : SetFilter(filter)
    \/ \E categoryId \in {"all", "c1"} : SetCategoryFilter(categoryId)
    \/ \E key \in SortKeys : SortChange(key)
    \/ \E value \in SearchValues : TypeSearch(value)
    \/ SearchClick

SpecSelect ==
    InitSelect /\ [][NextSelect]_vars

(***************************************************************************)
(* The backend behind the CRUD endpoints (spec.md, External interfaces):    *)
(* GET /tasks lists the store, POST /tasks creates a task from the fields   *)
(* sent, PUT /tasks/{id} replaces the editable fields, DELETE removes       *)
(***************************************************************************)
\* the id the backend gives the task it creates
NewTaskId ==
    "t9"

\* the store at the start: a medium task with two progress records, and a low one
Store0 ==
    <<WithRecords(Task("t1", <<"A", "b">>, "c1", "medium", NoDate, "todo", <<>>, 1),
                  <<ProgressRecord(<<"a", "<", "b">>, 100), ProgressRecord(<<"&">>, 200)>>),
      Task("t2", <<"b">>, Null, "low", NoDate, "todo", <<>>, 2)>>

\* POST /tasks: the created Task
createdTask(req) ==
    WithRecords(Task(NewTaskId, req.title, Null, req.priority, NoDate, req.status, <<>>,
                     now),
                req.progress_records)

\* PUT /tasks/{id}: the editable fields are replaced
updatedTask(task, req) ==
    [task EXCEPT !.title = req.title, !.priority = req.priority, !.status = req.status,
                 !.progress_records = req.progress_records, !.updated_at = now]

\* the store after the write req; a created task is listed first or last
applyWrite(store, req, atFront) ==
    CASE req.kind = "createTask" ->
            IF atFront THEN <<createdTask(req)>> \o store
            ELSE Append(store, createdTask(req))
      [] req.kind = "updateTask" ->
            [i \in 1..Len(store) |->
                IF store[i].id = req.id THEN updatedTask(store[i], req) ELSE store[i]]
      [] req.kind = "deleteTask" ->
            SelectSeq(store, LAMBDA task : task.id # req.id)
      [] OTHER -> store

\* a step of the backend: nothing of the renderer changes, no handler has run
BackendStep(next) ==
    /\ backend' = next
    /\ fx' = <<"backend">>
    /\ UNCHANGED <<sessionVars, domVars, netVars, now, tz, editSession, filteredTasks,
                   lastTasksResponse, gestures, faults, logVars, shellVars>>

\* the backend serves GET /tasks of reload r: its answer is the store as it is now
BackendListsTasks(r) ==
    /\ r \in 1..Len(reloads)
    /\ reloads[r].tasksReq = "pending"
    /\ \A a \in backend.answers : a.reload # r
    /\ BackendStep([backend EXCEPT
                       !.answers = @ \cup {[reload |-> r, body |-> backend.tasks]}])

\* the backend serves the write m
BackendWrites(m, atFront) ==
    /\ m \in 1..Len(muts)
    /\ muts[m].state = "pending"
    /\ m \notin backend.served
    /\ BackendStep([backend EXCEPT !.tasks = applyWrite(@, muts[m], atFront),
                                   !.served = @ \cup {m}])

\* the answer of the backend to GET /tasks of reload r arrives
TaskAnswer(r) ==
    \E a \in backend.answers :
        /\ a.reload = r
        /\ TaskResponse(r, [kind |-> "array", body |-> a.body])

\* the answer of the backend to GET /categories of reload r arrives
CategoryAnswer(r) ==
    CategoryResponse(r, [kind |-> "array", body |-> CategoryListA])

\* the answer of the backend to the write m arrives
WriteAnswer(m) ==
    /\ m \in backend.served
    /\ WriteSucceeds(m)

\* what the user gives the form in the model
FormTitles ==
    {<<"a">>}

FormPriorities ==
    {"high", "low"}

ProgressTexts ==
    {<<"<", "a">>}

\* the renderer once initApp has run, in front of a backend that holds Store0
InitEdit ==
    LET st == loadAllData(IdleState, "initApp", 0)
    IN  /\ ClockIs(252, 8)
        /\ BackendIs(Store0)
        /\ RendererIs(st)
        /\ frontendLogs = SaveAll(<<>>, 0, st.lv)
        /\ logged = SaveAll(<<>>, 0, st.lv)
        /\ logClock = Len(st.lv)
        /\ logCalls = Len(st.lv)
        /\ logPosts = 0
        /\ logPostsIssued = 0
        /\ logPostsFailed = 0
        /\ ShellRunning

\* the form and its writes against a backend that works
NextEdit ==
    \/ \E r \in 1..MaxReloads : BackendListsTasks(r)
    \/ \E m \in 1..MaxWrites : \E atFront \in BOOLEAN : BackendWrites(m, atFront)
    \/ \E r \in 1..MaxReloads : TaskAnswer(r)
    \/ \E r \in 1..MaxReloads : CategoryAnswer(r)
    \/ \E m \in 1..MaxWrites : WriteAnswer(m)
    \/ Paint
    \/ FallbackTimer
    \/ OpenCreateTaskModal
    \/ \E taskId \in {"t1", "t2"} : OpenTaskDetails(taskId)
    \/ \E title \in FormTitles : \E priority \in FormPriorities :
          EditForm(title, priority, "todo")
    \/ \E value \in ProgressTexts : AddProgressRecord(value)
    \/ SaveTask
    \/ DeleteTask(TRUE)

SpecEdit ==
    InitEdit /\ [][NextEdit]_vars

(***************************************************************************)
(* Claims about reloads                                                    *)
(***************************************************************************)
Has(seq, e) ==
    \E i \in 1..Len(seq) : seq[i] = e

Count(seq, e) ==
    Cardinality({i \in 1..Len(seq) : seq[i] = e})

\* the first a of seq comes before the first b after it
Before(seq, a, b) ==
    \E i \in 1..Len(seq) : \E j \in (i + 1)..Len(seq) : seq[i] = a /\ seq[j] = b

\* the levels of the entries the step logged
NewLevels ==
    [i \in 1..(logCalls' - logCalls) |->
        logged'[Len(logged') - (logCalls' - logCalls) + i].level]

\* what loadTasks leaves in memory for an answer
Normalised(answer) ==
    IF answer.kind = "array" THEN answer.body ELSE <<>>

TasksAnswerStep(r) ==
    r \in 1..Len(reloads) /\ reloads[r].tasksAnswer = "none" /\ reloads'[r].tasksAnswer # "none"

CategoriesAnswerStep(r) ==
    /\ r \in 1..Len(reloads)
    /\ reloads[r].categoriesAnswer = "none"
    /\ reloads'[r].categoriesAnswer # "none"

JoinStep(r) ==
    r \in 1..Len(reloads) /\ reloads[r].outcome = "pending" /\ reloads'[r].outcome = "resolved"

RejectStep(r) ==
    r \in 1..Len(reloads) /\ reloads[r].outcome = "pending" /\ reloads'[r].outcome = "rejected"

\* C1, as claimed: the task list and the category list change only in the step in
\* which a reload's join is reached (both of its fetches have succeeded); no step
\* taken while one of its fetches is outstanding, and none of a failed reload,
\* changes either list.
C1_ListsChangeOnlyAtJoin ==
    [][(tasks' # tasks \/ categories' # categories) =>
           \E r \in 1..MaxReloads : JoinStep(r)]_vars

\* C1, amended: the task list changes only in the step that handles the answer to
\* a reload's task fetch, where it becomes the payload (the empty list for a
\* malformed payload or a failed fetch), whether or not the category fetch of that
\* reload is outstanding; the category list changes only in the step that handles
\* the answer to a category fetch; no other step changes either list.
C1_ListsChangeOnlyAtAnswers ==
    [][/\ (tasks' # tasks =>
              \E r \in 1..MaxReloads :
                  /\ TasksAnswerStep(r)
                  /\ lastTasksResponse'.reload = r
                  /\ tasks' = Normalised(lastTasksResponse'))
       /\ (categories' # categories => \E r \in 1..MaxReloads : CategoriesAnswerStep(r))
       /\ \A r \in 1..MaxReloads :
              /\ (TasksAnswerStep(r) /\ reloads'[r].tasksAnswer # "array" => tasks' = <<>>)
              /\ (CategoriesAnswerStep(r) /\ reloads'[r].categoriesAnswer # "array" =>
                      categories' = <<>>)]_vars

\* the task list was replaced while the category fetch of the same reload was
\* outstanding, and emptied by a failed fetch of a later reload
C1_Witness ==
    /\ Len(reloads) = 2
    /\ reloads[1].tasksAnswer = "array"
    /\ reloads[1].categoriesAnswer = "none"
    /\ reloads[2].tasksAnswer = "error"
    /\ lastTasksResponse.reload = 2
    /\ tasks = <<>>

\* C2: nothing aborts a superseded reload: once every fetch of two or more reloads
\* has been answered every reload has resolved or rejected, and the task list is
\* what the task answer handled last left (its payload), whichever reload it
\* belongs to.
C2_LastWriteWins ==
    (/\ Len(reloads) >= 2
     /\ \A r \in 1..Len(reloads) :
            reloads[r].tasksAnswer # "none" /\ reloads[r].categoriesAnswer # "none")
        => /\ \A r \in 1..Len(reloads) : reloads[r].outcome # "pending"
           /\ tasks = Normalised(lastTasksResponse)

\* two overlapping reloads, the task answer of the first handled after that of the
\* second: the list of the first reload stays
C2_Witness ==
    /\ Len(reloads) = 2
    /\ \A r \in 1..2 : reloads[r].outcome = "resolved"
    /\ reloads[1].tasksAnswer = "array"
    /\ reloads[2].tasksAnswer = "array"
    /\ lastTasksResponse.reload = 1
    /\ lastTasksResponse.body = TaskListA
    /\ tasks = TaskListA

\* a step starts a reload: it shows the loading indicator and issues the two
\* fetches together
StartsReload ==
    /\ Len(reloads') = Len(reloads) + 1
    /\ \E i \in 1..(Len(fx') - 2) :
           fx'[i] = "showLoading" /\ fx'[i + 1] = "GET /tasks" /\ fx'[i + 2] = "GET /categories"
    /\ reloads'[Len(reloads')].tasksReq = "pending"
    /\ reloads'[Len(reloads')].categoriesReq = "pending"
    /\ reloads'[Len(reloads')].outcome = "pending"
    /\ loadingIndicator'

\* the outcome Promise.all has for the two requests of a reload
OutcomeOf(rl) ==
    IF rl.tasksReq = "failed" \/ rl.categoriesReq = "failed" THEN "rejected"
    ELSE IF rl.tasksReq = "ok" /\ rl.categoriesReq = "ok" THEN "resolved"
    ELSE "pending"

\* C3: every reload shows the loading indicator and starts its two fetches
\* together; it resolves in the step in which both fetches have succeeded, where it
\* hides the loading indicator, re-renders the task list and the category list and
\* refreshes the aggregates iff the current view is stats; it rejects in the step
\* in which a fetch fails first, where it hides the loading indicator, shows an
\* error notification and re-renders nothing; it has one outcome only.
C3_ReloadProtocol ==
    [][/\ (Len(reloads') # Len(reloads) => StartsReload)
       /\ \A r \in 1..Len(reloads) :
              /\ reloads'[r].outcome = OutcomeOf(reloads'[r])
                    \/ (reloads[r].outcome = "rejected" /\ reloads'[r].outcome = "rejected")
              /\ (reloads[r].outcome # "pending" => reloads'[r].outcome = reloads[r].outcome)
              /\ (JoinStep(r) =>
                     /\ Before(fx', "hideLoading", "renderTasks")
                     /\ Before(fx', "renderTasks", "renderCategories")
                     /\ Before(fx', "renderCategories", "resolve")
                     /\ (Has(fx', "updateStats") <=> currentView = "stats")
                     /\ (currentView = "stats" => stats' = StatsOf(tasks'))
                     /\ ~Has(fx', "notify:error")
                     /\ ~loadingIndicator'
                     /\ tasksContainer' = <<>>
                     /\ categoryList' = Ids(categories'))
              /\ (RejectStep(r) =>
                     /\ Before(fx', "hideLoading", "notify:error")
                     /\ Before(fx', "notify:error", "reject")
                     /\ ~Has(fx', "renderTasks")
                     /\ ~Has(fx', "renderCategories")
                     /\ ~Has(fx', "updateStats")
                     /\ ~loadingIndicator'
                     /\ UNCHANGED <<tasksContainer, paintTimers, categoryList, stats>>)]_vars

\* one reload has rejected, another has just resolved in the stats view
C3_Witness ==
    /\ Len(reloads) = 2
    /\ \E r \in 1..2 : reloads[r].outcome = "rejected"
    /\ \E r \in 1..2 : reloads[r].outcome = "resolved"
    /\ currentView = "stats"
    /\ Has(fx, "resolve")
    /\ Has(fx, "updateStats")
    /\ ~loadingIndicator

\* C7: the answer to GET /tasks whose payload is missing or not an array leaves the
\* empty task list, logs exactly one warn entry and no error entry, and the request
\* is fulfilled, not rejected; likewise GET /categories and the category list.
C7_MalformedPayload ==
    [][\A r \in 1..MaxReloads :
           /\ (TasksAnswerStep(r) /\ reloads'[r].tasksAnswer = "malformed" =>
                  /\ tasks' = <<>>
                  /\ Count(NewLevels, "warn") = 1
                  /\ Count(NewLevels, "error") = 0
                  /\ reloads'[r].tasksReq = "ok")
           /\ (CategoriesAnswerStep(r) /\ reloads'[r].categoriesAnswer = "malformed" =>
                  /\ categories' = <<>>
                  /\ Count(NewLevels, "warn") = 1
                  /\ Count(NewLevels, "error") = 0
                  /\ reloads'[r].categoriesReq = "ok")]_vars

\* a malformed task payload emptied a list that held tasks, and its reload resolved
C7_Witness ==
    /\ Len(reloads) = 2
    /\ reloads[1].tasksAnswer = "array"
    /\ reloads[2].tasksAnswer = "malformed"
    /\ lastTasksResponse.reload = 2
    /\ tasks = <<>>
    /\ reloads[2].tasksReq = "ok"
    /\ reloads[2].outcome = "resolved"
    /\ \E i \in 1..Len(logged) : logged[i].level = "warn"

(***************************************************************************)
(* Claims about writes                                                     *)
(***************************************************************************)
WriteSucceedsStep(m) ==
    m \in 1..Len(muts) /\ muts[m].state = "pending" /\ muts'[m].state = "ok"

WriteFailsStep(m) ==
    m \in 1..Len(muts) /\ muts[m].state = "pending" /\ muts'[m].state = "failed"

\* the step completes, with either outcome, a reload that a write started
WriteReloadCompletes ==
    \E r \in 1..Len(reloads) :
        reloads[r].mut # 0 /\ reloads[r].outcome = "pending" /\ reloads'[r].outcome # "pending"

\* C4, as claimed: when the request of a write succeeds the loading indicator is
\* hidden, then the modal is closed (createCategory, which is fed by a prompt, has
\* none of its own to close), then the reload is invoked, and a success
\* notification is shown only by a step that completes the reload the write
\* started, never while that reload is in flight.
C4_SuccessOnlyAfterReload ==
    [][/\ \A m \in 1..MaxWrites :
              WriteSucceedsStep(m) =>
                  /\ Before(fx', "hideLoading", "loadAllData")
                  /\ (muts[m].kind # "createCategory" =>
                          /\ Before(fx', "hideLoading", "closeTaskModal")
                          /\ Before(fx', "closeTaskModal", "loadAllData"))
       /\ (Has(fx', "notify:success") => WriteReloadCompletes)]_vars

\* C4, amended: when the request of saveTask or deleteTask succeeds the loading
\* indicator is hidden, then the modal is closed, then the reload is invoked; for
\* createCategory the loading indicator is hidden, then the reload is invoked, and
\* the modal is not closed.  saveTask and createCategory show their success
\* notification only in the step in which the reload they started resolves, and
\* then always; deleteTask shows it in the step that invokes the reload, after
\* invoking it, while that reload is in flight.
C4_MutationProtocol ==
    [][/\ \A m \in 1..MaxWrites :
              WriteSucceedsStep(m) =>
                  /\ Before(fx', "hideLoading", "loadAllData")
                  /\ muts'[m].reload = Len(reloads')
                  /\ Len(reloads') = Len(reloads) + 1
                  /\ reloads'[Len(reloads')].outcome = "pending"
                  /\ reloads'[Len(reloads')].mut = m
                  /\ IF muts[m].kind = "createCategory"
                     THEN /\ ~Has(fx', "closeTaskModal")
                          /\ UNCHANGED <<taskModal, currentTaskId>>
                          /\ ~Has(fx', "notify:success")
                     ELSE /\ Before(fx', "hideLoading", "closeTaskModal")
                          /\ Before(fx', "closeTaskModal", "loadAllData")
                          /\ ~taskModal'
                          /\ (Has(fx', "notify:success") <=> muts[m].kind = "deleteTask")
                          /\ (muts[m].kind = "deleteTask" =>
                                  Before(fx', "GET /categories", "notify:success"))
       /\ (Has(fx', "notify:success") =>
              \/ \E m \in 1..MaxWrites : WriteSucceedsStep(m) /\ muts[m].kind = "deleteTask"
              \/ \E r \in 1..MaxReloads :
                     JoinStep(r) /\ reloads[r].caller \in {"saveTask", "createCategory"})
       /\ \A r \in 1..MaxReloads :
              JoinStep(r) /\ reloads[r].caller \in {"saveTask", "createCategory"} =>
                  /\ Before(fx', "resolve", "notify:success")
                  /\ notification'.type = "success"]_vars

\* a save succeeded, its reload resolved and the success notification is on
C4_Witness ==
    /\ \E m \in 1..Len(muts) :
           /\ muts[m].kind \in {"createTask", "updateTask"}
           /\ muts[m].state = "ok"
           /\ reloads[muts[m].reload].outcome = "resolved"
    /\ Has(fx, "notify:success")
    /\ notification.type = "success"
    /\ ~taskModal

\* C5: a write whose request fails is not retried and starts no reload: one
\* request was issued for it, the loading indicator is hidden, one error
\* notification is shown, and the task list, the category list, the view, the
\* filters and the open task id are left as they were.
C5_WriteFailure ==
    [][/\ \A m \in 1..Len(muts') : muts'[m].requests = 1
       /\ \A m \in 1..MaxWrites :
              /\ (WriteFailsStep(m) =>
                     /\ Len(muts') = Len(muts)
                     /\ Len(reloads') = Len(reloads)
                     /\ muts'[m].reload = 0
                     /\ ~loadingIndicator'
                     /\ Count(fx', "notify:error") = 1
                     /\ Count(fx', "notify:success") + Count(fx', "notify:warning") = 0
                     /\ notification'.type = "error"
                     /\ ~Has(fx', "loadAllData")
                     /\ UNCHANGED <<tasks, categories, currentView, currentFilter,
                                    currentCategory, currentTaskId, taskModal>>)
              /\ (m \in 1..Len(muts) /\ muts[m].state = "failed" => muts'[m] = muts[m])]_vars

\* the update of an open task failed: the modal is still open on that task
C5_Witness ==
    /\ \E m \in 1..Len(muts) :
           /\ muts[m].kind = "updateTask"
           /\ muts[m].state = "failed"
           /\ currentTaskId = muts[m].id
    /\ taskModal
    /\ tasks # <<>>
    /\ notification.type = "error"
    /\ ~loadingIndicator

\* C6: a createCategory whose request fails with status 409 shows the error
\* notification with the duplicate-name message; with another status, or with no
\* response, it shows the failure message with the server's message when the
\* response carries one and with the transport error's message otherwise.
C6_ConflictMessage ==
    [][\A m \in 1..MaxWrites :
           WriteFailsStep(m) /\ muts[m].kind = "createCategory" =>
               LET err == muts'[m].error
               IN  /\ notification'.type = "error"
                   /\ notification'.message =
                          (IF err.hasResponse /\ err.status = 409
                           THEN [text |-> "categoryExists", detail |-> ""]
                           ELSE IF err.hasResponse /\ err.hasMessage
                           THEN [text |-> "createCategoryFailed", detail |-> "server"]
                           ELSE [text |-> "createCategoryFailed", detail |-> "transport"])]_vars

\* a createCategory answered 409, with a server message, shows the duplicate-name text
C6_Witness ==
    \E m \in 1..Len(muts) :
        /\ muts[m].kind = "createCategory"
        /\ muts[m].state = "failed"
        /\ muts[m].error \in WriteErrors
        /\ muts[m].error.status = 409
        /\ muts[m].error.hasMessage
        /\ notification = [message |-> [text |-> "categoryExists", detail |-> ""],
                           type |-> "error"]

(***************************************************************************)
(* Claims about the logger and the main process                            *)
(***************************************************************************)
\* C8: the persisted log buffer never holds more than 1000 entries and is exactly
\* the most recent min(n, 1000) of the n entries logged since the last clear, in
\* insertion order; after 1001 inserts the first is gone and the 1001st is present.
C8_LogBufferIsRing ==
    LET n == Len(logged)
        k == Len(frontendLogs)
    IN  /\ k <= LogCapacity
        /\ k = (IF n <= LogCapacity THEN n ELSE LogCapacity)
        /\ \A i \in 1..k : frontendLogs[i] = logged[n - k + i]
        /\ (n = LogCapacity + 1 =>
               /\ \A i \in 1..k : frontendLogs[i] # logged[1]
               /\ frontendLogs[k] = logged[LogCapacity + 1])

C8_Witness ==
    /\ Len(logged) = LogCapacity + 1
    /\ Len(frontendLogs) = LogCapacity
    /\ logCalls >= 1

\* C9: each FrontendLogger.log call appends one entry to the buffer and issues one
\* POST /logs if its level is error, none otherwise; a POST /logs that fails adds
\* no entry to the buffer, issues no further POST /logs and shows no notification.
C9_ErrorForwarding ==
    [][/\ logCalls' >= logCalls
       /\ (logCalls' > logCalls =>
              /\ Len(logged') = Len(logged) + (logCalls' - logCalls)
              /\ frontendLogs'[Len(frontendLogs')] = logged'[Len(logged')]
              /\ logPostsIssued' - logPostsIssued = Count(NewLevels, "error")
              /\ logPosts' - logPosts = Count(NewLevels, "error"))
       /\ (logCalls' = logCalls =>
              /\ logPostsIssued' = logPostsIssued
              /\ logPosts' <= logPosts
              /\ frontendLogs' = frontendLogs \/ frontendLogs' = <<>>)
       /\ (logPostsFailed' # logPostsFailed =>
              /\ logPostsFailed' = logPostsFailed + 1
              /\ logPosts' = logPosts - 1
              /\ UNCHANGED <<frontendLogs, logged, logPostsIssued, logCalls, notification>>)]_vars

\* an error entry and an info entry were logged, one POST /logs was issued, and it failed
C9_Witness ==
    /\ logCalls >= 2
    /\ \E i \in 1..Len(frontendLogs) : frontendLogs[i].level = "error"
    /\ frontendLogs[Len(frontendLogs)].level = "info"
    /\ logPostsIssued = 1
    /\ logPostsFailed = 1
    /\ logPosts = 0

\* C10: the backend child is spawned exactly once, at application ready, never again
\* (not after it exits, not when a window is re-created), and once the application
\* is quitting or has quit the child has been sent a kill unless it had already exited.
C10_BackendSingleton ==
    /\ spawnCount <= 1
    /\ (appState # "launching" => spawnCount = 1)
    /\ (appState = "launching" => spawnCount = 0 /\ procState = "none")
    /\ (appState \in {"quitting", "quit"} => procState \in {"signalled", "exited"})

C10_Witness ==
    /\ appState = "quit"
    /\ windowsCreated >= 2
    /\ spawnCount = 1
    /\ killCount >= 1
    /\ procState = "signalled"

(***************************************************************************)
(* Claims about the views and the form                                     *)
(***************************************************************************)
\* the step is a click on the button of view
SwitchViewStep(view) ==
    /\ gestures' = gestures + 1
    /\ Len(fx') >= 2
    /\ fx'[1] = "click:view"
    /\ fx'[2] = view

\* C11: switchView(v) with v the current view changes nothing: no visual state, no
\* session state, no number of the stats view, and nothing is recomputed.  With v
\* another view it sets currentView to v, leaves exactly v visually active, and
\* recomputes the four counts from the in-memory task list exactly when v is stats;
\* the lists, the filters and the rest of the page stay as they are.
C11_SwitchView ==
    [][\A view \in Views :
          SwitchViewStep(view) =>
              IF view = currentView
              THEN /\ UNCHANGED <<sessionVars, domVars, netVars, logVars>>
                   /\ ~Has(fx', "updateStats")
              ELSE /\ currentView' = view
                   /\ activeViews' = {view}
                   /\ Has(fx', "updateStats") <=> view = "stats"
                   /\ stats' = IF view = "stats" THEN StatsOf(tasks) ELSE stats
                   /\ UNCHANGED <<currentFilter, currentCategory, currentTaskId, tasks,
                                  categories, tasksContainer, paintTimers, netVars>>]_vars

\* the stats view was entered with tasks in memory, and shows their counts
C11_Witness ==
    /\ fx = <<"click:view", "stats", "switchView", "updateStats">>
    /\ currentView = "stats"
    /\ activeViews = {"stats"}
    /\ tasks = TaskListB
    /\ stats = [total |-> 2, todo |-> 1, inProgress |-> 0, completed |-> 1]

\* the step is a click on the save button of the form
SaveTaskStep ==
    /\ fx' # <<>>
    /\ fx'[1] = "click:save"

\* C12: every create or update request carries a title that is non-empty after
\* trimming, and is issued by saveTask with the trimmed title of the form.  When the
\* title of the form is empty or blank, saveTask issues no request and starts no
\* reload, shows a warning, and leaves currentTaskId, the open form and the two
\* in-memory lists as they are.
C12_TitleRequired ==
    [][/\ SaveTaskStep /\ trim(taskTitle) = <<>> =>
            /\ UNCHANGED <<muts, reloads, currentTaskId, taskModal, taskTitle, tasks,
                           categories>>
            /\ notification' = [message |-> Message("titleRequired", ""),
                                type |-> "warning"]
            /\ fx' = <<"click:save", "notify:warning">>
       /\ \A m \in 1..Len(muts') :
            m > Len(muts) /\ muts'[m].kind \in {"createTask", "updateTask"} =>
                /\ SaveTaskStep
                /\ muts'[m].title = trim(taskTitle)
                /\ muts'[m].title # <<>>
                /\ trim(muts'[m].title) = muts'[m].title]_vars

\* a blank title was refused while a task was open for editing
C12_Witness ==
    /\ fx = <<"click:save", "notify:warning">>
    /\ taskTitle = <<" ">>
    /\ currentTaskId = "t1"
    /\ taskModal
    /\ muts = <<>>

(***************************************************************************)
(* Claims about getFilteredAndSortedTasks                                  *)
(***************************************************************************)
\* the step calls renderTasks: filteredTasks' is what getFilteredAndSortedTasks
\* gave for the list, the filters and the sort key the step leaves
RenderStep ==
    Has(fx', "renderTasks")

\* nothing is filtered out: status filter all, category all, no search text
Unfiltered ==
    /\ currentFilter' = "all"
    /\ currentCategory' = "all"
    /\ trim(toLowerCase(searchInput')) = <<>>

\* the same tasks, each once (ids are unique in a list)
IsPermutation(a, b) ==
    /\ Len(a) = Len(b)
    /\ {a[i] : i \in 1..Len(a)} = {b[i] : i \in 1..Len(b)}

\* no task of the list comes before one the comparator of sortBy puts before it
InOrder(sortBy, list) ==
    \A i, j \in 1..Len(list) : i < j => Compare(sortBy, list[i], list[j]) <= 0

\* C13 as stated: with status filter all, category all and no search text the
\* result of getFilteredAndSortedTasks is the in-memory list, in the same order.
C13_AllKeepsOrder ==
    [][RenderStep /\ Unfiltered => filteredTasks' = tasks']_vars

\* C13, amended: with status filter all, category all and no search text the result
\* holds exactly the tasks of the in-memory list, each once; it is the list in its
\* own order whenever the list is already in the order of the selected sort key.
C13_AllKeepsElements ==
    [][RenderStep /\ Unfiltered =>
          /\ IsPermutation(filteredTasks', tasks')
          /\ InOrder(sortSelect', tasks') => filteredTasks' = tasks']_vars

\* three tasks already in the order of their priorities were rendered unfiltered
C13_Witness ==
    /\ Has(fx, "renderTasks")
    /\ currentFilter = "all"
    /\ currentCategory = "all"
    /\ searchInput = <<>>
    /\ sortSelect = "priority"
    /\ Len(tasks) = 3
    /\ tasks[1].priority = "high"
    /\ tasks[3].priority = "low"
    /\ filteredTasks = tasks

\* the tasks of a list, as a set
Range(list) ==
    {list[i] : i \in 1..Len(list)}

\* what getFilteredAndSortedTasks gives under a status filter, category all and no
\* search text, for the list, the sort key and the clock of the state
Selected(filter) ==
    getFilteredAndSortedTasks(tasks, filter, "all", <<>>, sortSelect, now, tz)

\* the task is due on a calendar day before the current local day, and not completed
PastDue(task) ==
    /\ task.due_date # NoDate
    /\ task.due_date < LocalDay(now, tz)
    /\ task.status # "completed"

DueToday(task) ==
    /\ task.due_date # NoDate
    /\ task.due_date = LocalDay(now, tz)
    /\ task.status # "completed"

\* C15: a task that is not completed and whose due date is the current calendar day
\* (it falls at today's date boundary) is in the result under the status filter
\* due_soon and not in the result under overdue; the result under due_soon is exactly
\* the tasks not completed whose due date lies in the half-open interval from today's
\* start to tomorrow's start, that is, on the current calendar day.
C15_DueSoon ==
    [][RenderStep =>
          /\ currentFilter' = "due_soon" /\ Unfiltered =>
                Range(filteredTasks') = {t \in Range(tasks') : DueToday(t)}
          /\ currentFilter' = "overdue" =>
                \A t \in Range(tasks') : DueToday(t) => t \notin Range(filteredTasks')]_vars

\* C16: under the sort key due_date_asc every task without a due date comes after
\* every task with one, whatever the order of the input, and the dated tasks come in
\* ascending order of their due dates; under due_date_desc every task without a due
\* date comes before every dated task, and the dated tasks come in descending order.
\* Nothing is lost or added by the sort.
C16_DueDateSort ==
    [][RenderStep =>
          LET r == filteredTasks'
              Dated(i) == r[i].due_date # NoDate
          IN  /\ Unfiltered => IsPermutation(r, tasks')
              /\ sortSelect' = "due_date_asc" =>
                    \A i, j \in 1..Len(r) :
                        i < j => /\ Dated(j) => Dated(i)
                                 /\ Dated(i) /\ Dated(j) => r[i].due_date <= r[j].due_date
              /\ sortSelect' = "due_date_desc" =>
                    \A i, j \in 1..Len(r) :
                        i < j => /\ Dated(i) => Dated(j)
                                 /\ Dated(i) /\ Dated(j) => r[i].due_date >= r[j].due_date]_vars

\* an undated task given first and two dated tasks given in descending order were
\* sorted by due_date_asc
C16_Witness ==
    /\ Has(fx, "renderTasks")
    /\ sortSelect = "due_date_asc"
    /\ currentFilter = "all"
    /\ Len(tasks) = 3
    /\ <<tasks[1].due_date, tasks[2].due_date, tasks[3].due_date>> = <<NoDate, 10, 9>>
    /\ Ids(filteredTasks) = <<"t3", "t2", "t1">>

\* the rank the spec gives the three priorities: high before medium before low
Rank(p) ==
    CASE p = "high" -> 0
      [] p = "medium" -> 1
      [] p = "low" -> 2

\* the place of a task in a list
IndexIn(list, t) ==
    CHOOSE i \in 1..Len(list) : list[i] = t

PrioritiesOf(list) ==
    [i \in 1..Len(list) |-> list[i].priority]

\* C17: when every task has the priority high, medium or low, the sort key priority
\* gives all high tasks, then all medium, then all low, and tasks of one priority
\* keep the order they had in the input; the input low, high, medium, high, low,
\* medium gives high, high, medium, medium, low, low.
C17_PrioritySort ==
    [][/\ RenderStep
       /\ Unfiltered
       /\ sortSelect' = "priority"
       /\ \A t \in Range(tasks') : t.priority \in {"high", "medium", "low"}
       => LET r == filteredTasks'
          IN  /\ IsPermutation(r, tasks')
              /\ \A i, j \in 1..Len(r) :
                    i < j => /\ Rank(r[i].priority) <= Rank(r[j].priority)
                             /\ r[i].priority = r[j].priority =>
                                    IndexIn(tasks', r[i]) < IndexIn(tasks', r[j])
              /\ PrioritiesOf(tasks') = <<"low", "high", "medium", "high", "low", "medium">>
                    => /\ PrioritiesOf(r) = <<"high", "high", "medium", "medium", "low", "low">>
                       /\ Ids(r) = <<"t2", "t4", "t3", "t6", "t1", "t5">>]_vars

\* the shuffled list of six was sorted by priority
C17_Witness ==
    /\ Has(fx, "renderTasks")
    /\ sortSelect = "priority"
    /\ currentFilter = "all"
    /\ PrioritiesOf(tasks) = <<"low", "high", "medium", "high", "low", "medium">>
    /\ PrioritiesOf(filteredTasks) = <<"high", "high", "medium", "medium", "low", "low">>

\* the rank with the fallback: a priority that is not high, medium or low, or that
\* is absent, ranks as medium
FallbackRank(p) ==
    IF p \in {"high", "medium", "low"} THEN Rank(p) ELSE 1

\* C18: under the sort key priority a task whose priority is unrecognized or absent
\* has a stable fallback rank, that of medium: the result is a permutation of the
\* input ordered by rank, so every high task comes before and every low task after
\* each unrecognized one, and high before low, for every order of the input.
C18_PriorityFallback ==
    [][RenderStep /\ Unfiltered /\ sortSelect' = "priority" =>
          LET r == filteredTasks'
          IN  /\ IsPermutation(r, tasks')
              /\ \A i, j \in 1..Len(r) :
                    i < j => FallbackRank(r[i].priority) <= FallbackRank(r[j].priority)]_vars

(***************************************************************************)
(* Claims about the edit session                                           *)
(***************************************************************************)
\* the step is a click on a create button
OpenCreateStep ==
    /\ fx' # <<>>
    /\ fx'[1] = "click:create"

\* the step is a click on the card of the task taskId
OpenDetailsStep(taskId) ==
    /\ Len(fx') >= 2
    /\ fx'[1] = "click:card"
    /\ fx'[2] = taskId

\* the progress records the form shows, as saveTask reads them
ShownRecords ==
    [i \in 1..Len(progressRecords) |->
        ProgressRecord(progressRecords[i].textContent, progressRecords[i].createdAt)]

\* C20: opening the form for a new task sets currentTaskId to null and empties the
\* progress records shown.  Opening the details of a task of the in-memory list sets
\* currentTaskId to its id and shows its progress records, each with its text and its
\* created_at, in the stored order; saving then without an edit sends an update for
\* that id whose progress_records are the stored ones.  Opening the details of an id
\* that is not in the list changes nothing.
C20_EditSession ==
    [][/\ OpenCreateStep => currentTaskId' = Null /\ progressRecords' = <<>>
       /\ \A taskId \in {"t1", "t2", NewTaskId} :
            OpenDetailsStep(taskId) =>
                LET found == {i \in 1..Len(tasks) : tasks[i].id = taskId}
                IN  IF found = {}
                    THEN UNCHANGED <<sessionVars, domVars, netVars, logVars>>
                    ELSE /\ currentTaskId' = taskId
                         /\ taskModal'
                         /\ \E i \in found : ShownRecords' = tasks[i].progress_records
       /\ /\ SaveTaskStep
          /\ currentTaskId # Null
          /\ editSession.id = currentTaskId
          /\ ~editSession.edited
          => /\ Len(muts') = Len(muts) + 1
             /\ muts'[Len(muts')].kind = "updateTask"
             /\ muts'[Len(muts')].id = currentTaskId
             /\ muts'[Len(muts')].progress_records = editSession.progress_records]_vars

\* the task with two progress records was opened and saved as it was: the update
\* carries the two records
C20_Witness ==
    /\ fx # <<>>
    /\ fx[1] = "click:save"
    /\ Len(muts) = 1
    /\ muts[1].kind = "updateTask"
    /\ muts[1].id = "t1"
    /\ ~editSession.edited
    /\ muts[1].progress_records =
          <<ProgressRecord(<<"a", "<", "b">>, 100), ProgressRecord(<<"&">>, 200)>>

(***************************************************************************)
(* Claims about the whole path: form, backend, reload, visible list        *)
(***************************************************************************)
\* what getFilteredAndSortedTasks shows of list under the status filter todo and the
\* sort key priority
VisibleTodoByPriority(list) ==
    getFilteredAndSortedTasks(list, "todo", "all", <<>>, "priority", now, tz)

\* the step completes the reload that saveTask started after the write m had created
\* a task of priority high and status todo
CreateReloadCompletes(m) ==
    /\ m \in 1..Len(muts)
    /\ muts[m].kind = "createTask"
    /\ muts[m].priority = "high"
    /\ muts[m].status = "todo"
    /\ muts[m].reload # 0
    /\ JoinStep(muts[m].reload)

\* the task created from req is in list, and in the visible list it comes before
\* every other task of priority medium or low
AppearsAhead(list, req) ==
    LET visible == VisibleTodoByPriority(list)
    IN  /\ \E i \in 1..Len(list) :
              /\ list[i].id = NewTaskId
              /\ list[i].title = req.title
              /\ list[i].priority = "high"
              /\ list[i].status = "todo"
        /\ \E i \in 1..Len(visible) :
              /\ visible[i].id = NewTaskId
              /\ \A j \in 1..Len(visible) :
                    visible[j].id # NewTaskId /\ visible[j].priority \in {"medium", "low"}
                        => i < j

\* C19 as stated: once saveTask has created a task with a title, priority high and
\* status todo on a working backend and the reload it triggered completes, the task
\* is in the in-memory list and comes, under the status filter todo and the sort key
\* priority, before every medium or low task that was there before.
C19_CreatedTaskAppears ==
    [][\A m \in 1..MaxWrites :
          CreateReloadCompletes(m) => AppearsAhead(tasks', muts[m])]_vars

\* C19, amended: the same, provided the task answer handled last when the triggered
\* reload completes is that reload's own (no answer of a reload started before the
\* creation has arrived after it).
C19_CreatedTaskAppearsUnlessStale ==
    [][\A m \in 1..MaxWrites :
          CreateReloadCompletes(m) /\ lastTasksResponse'.reload = muts[m].reload
              => AppearsAhead(tasks', muts[m])]_vars

\* the reload after the creation has completed; the created task leads the visible
\* list, before the medium and the low task of the store
C19_Witness ==
    /\ Has(fx, "resolve")
    /\ Len(muts) = 1
    /\ muts[1].kind = "createTask"
    /\ muts[1].reload = 2
    /\ reloads[2].outcome = "resolved"
    /\ lastTasksResponse.reload = 2
    /\ Ids(VisibleTodoByPriority(tasks)) = <<NewTaskId, "t1", "t2">>

(***************************************************************************)
(* C21: the Filter/Sort Engine and the render functions leave the session  *)
(* state alone                                                             *)
(***************************************************************************)
\* the session state of a renderer state: the task list (elements and order), the
\* category list, the view, the two filters and the open task id
SessionOf(st) ==
    <<st.tasks, st.categories, st.currentView, st.currentFilter, st.currentCategory,
      st.currentTaskId>>

\* C21: in every state, and under every sort key, a call of renderTasks (which calls
\* getFilteredAndSortedTasks), of renderCategories or of updateStats returns with the
\* task list, the category list, the current view, the status filter, the category
\* filter and the open task id as they were when it was called
C21_RenderFrame ==
    \A key \in SortKeys :
        LET st == [Cur EXCEPT !.sortSelect = key]
        IN  /\ SessionOf(renderTasks(st)) = SessionOf(st)
            /\ SessionOf(renderCategories(st)) = SessionOf(st)
            /\ SessionOf(updateStats(st)) = SessionOf(st)

\* renderTasks ran on three tasks with no filter, and the list it selected is in
\* another order than the list in memory
C21_Witness ==
    /\ Has(fx, "renderTasks")
    /\ Len(tasks) = 3
    /\ currentFilter = "all" /\ currentCategory = "all" /\ searchInput = <<>>
    /\ IsPermutation(filteredTasks, tasks)
    /\ filteredTasks # tasks

(***************************************************************************)
(* C22: what the task container shows once the paint timers have fired     *)
(***************************************************************************)
\* what the container shows for a visible list: one card per task, in order, or the
\* empty-state placeholder alone
CardsOf(visible) ==
    IF visible = <<>> THEN <<"empty-state">> ELSE Ids(visible)

\* C22: once a reload has rendered the list and no 50 ms paint timer is pending, the
\* task container shows exactly the visible list computed by the most recent
\* renderTasks call: one card per visible task, in order, none twice, and no
\* empty-state placeholder next to cards
C22_ContainerShowsLastRender ==
    (/\ paintTimers = <<>>
     /\ \E r \in 1..Len(reloads) : reloads[r].outcome = "resolved")
        => tasksContainer = CardsOf(filteredTasks)

(***************************************************************************)
(* C23: the success notification of saveTask                               *)
(***************************************************************************)
\* the step resolves the reload that the successful save m started
SaveReloadResolves(m) ==
    /\ m \in 1..Len(muts)
    /\ muts[m].kind \in {"createTask", "updateTask"}
    /\ muts[m].reload # 0
    /\ JoinStep(muts[m].reload)

\* C23: the success notification shown when the reload of a successful save resolves
\* names the operation that was issued: an update when the save was sent as PUT for
\* the open task id, a creation when it was sent as POST, whatever form the user
\* opened or closed while the requests were in flight
C23_NotificationNamesOperation ==
    [][\A m \in 1..MaxWrites :
           SaveReloadResolves(m) =>
               /\ notification'.type = "success"
               /\ notification'.message =
                      Message(IF muts[m].kind = "updateTask" THEN "taskUpdated"
                                                             ELSE "taskCreated", "")]_vars

(***************************************************************************)
(* C24: the loading indicator and the requests in flight                   *)
(***************************************************************************)
\* a reload whose Promise.all has not settled, or a write whose request has not
\* been answered
Outstanding ==
    \/ \E r \in 1..Len(reloads) : reloads[r].outcome = "pending"
    \/ \E m \in 1..Len(muts) : muts[m].state = "pending"

\* C24: in every state, whatever operations overlap, the loading indicator is shown
\* if a reload or a write request started by the View Controller is outstanding,
\* and hidden if none is
C24_LoadingWhileOutstanding ==
    loadingIndicator <=> Outstanding

(***************************************************************************)
(* C25: the aggregates of the stats view                                   *)
(***************************************************************************)
\* no reload is in flight: every Promise.all has settled and neither of its two
\* fetches is still unanswered
NoReloadInFlight ==
    \A r \in 1..Len(reloads) :
        /\ reloads[r].outcome # "pending"
        /\ reloads[r].tasksReq # "pending"
        /\ reloads[r].categoriesReq # "pending"

\* C25: whenever the current view is stats and no reload is in flight, the displayed
\* aggregates (total, todo, in progress, completed) are the counts of the task list
\* in memory, after any view switches and any reloads, successful or failed
C25_StatsFollowTasks ==
    (currentView = "stats" /\ NoReloadInFlight) => stats = StatsOf(tasks)

====
